---- MODULE Spec2Model ----
(***************************************************************************)
(* Verification model of the decision core of pulse_demo:                  *)
(*   - action/sprint_agent.py : resolve_step_placeholders, ping_pong_loop, *)
(*                              execute_action (duplicate-click guard)     *)
(*   - codex/learning_to_codex.py : AutomationConverter (reliability       *)
(*                              classifier, convert_to_automation)         *)
(*   - api/automation_api.py, api/quality_check_api.py : convert/export    *)
(*                              endpoints (quality threshold gate)         *)
(*                                                                         *)
(* Strings are sequences of tokens.  A token is one atomic piece of text:  *)
(* a brace, a blank, a word, or a placeholder name.  Python values are     *)
(* records [t, s, p, n] : t is the Python type, s the text of a str,       *)
(* p the two numbers of a tuple/list, n the value of a number.             *)
(***************************************************************************)
EXTENDS Integers, Sequences, FiniteSets, TLC

\* ------------------------------------------------------------------------
\* Bounds of the model
\* ------------------------------------------------------------------------
MaxLen == 5
MaxSteps == 2
MaxItems == 2
MaxActions == 3

\* ------------------------------------------------------------------------
\* Python values
\* ------------------------------------------------------------------------
StrV(s) == [t |-> "str", s |-> s, p |-> <<0, 0>>, n |-> 0]
NoneV == [t |-> "none", s |-> <<>>, p |-> <<0, 0>>, n |-> 0]
TupV(x, y) == [t |-> "tuple", s |-> <<>>, p |-> <<x, y>>, n |-> 0]
NumV(n) == [t |-> "num", s |-> <<>>, p |-> <<0, 0>>, n |-> n]
DictV == [t |-> "dict", s |-> <<>>, p |-> <<0, 0>>, n |-> 0]

\* str(v) for the values a task context holds; the caller maps None to "".
PyStr(v) ==
  CASE v.t = "str" -> v.s
    [] v.t = "none" -> <<"None">>
    [] v.t = "tuple" -> <<"(", ToString(v.p[1]), ",", " ", ToString(v.p[2]), ")">>
    [] v.t = "num" -> <<ToString(v.n)>>
    [] OTHER -> <<"{", "}">>

\* truthiness of a value (bool(v))
Truthy(v) ==
  CASE v.t = "str" -> v.s # <<>>
    [] v.t = "none" -> FALSE
    [] v.t = "tuple" -> TRUE
    [] v.t = "num" -> v.n # 0
    [] OTHER -> FALSE

\* ------------------------------------------------------------------------
\* str methods on token sequences
\* ------------------------------------------------------------------------
IsSpace(c) == c = " "

LowerTok(c) ==
  CASE c = "Send" -> "send"
    [] c = "Save" -> "save"
    [] c = "Hello" -> "hello"
    [] c = "Mia" -> "mia"
    [] c = "Click" -> "click"
    [] c = "Google Chrome" -> "google chrome"
    [] c = "Unknown" -> "unknown"
    [] c = "S" -> "s"
    [] OTHER -> c

\* s.lower()
Lower(s) == [i \in 1..Len(s) |-> LowerTok(s[i])]

\* s.strip()
Strip(s) ==
  LET nonsp == {i \in 1..Len(s) : ~IsSpace(s[i])}
  IN IF nonsp = {} THEN <<>>
     ELSE LET lo == CHOOSE i \in nonsp : \A j \in nonsp : i <= j
              hi == CHOOSE i \in nonsp : \A j \in nonsp : j <= i
          IN SubSeq(s, lo, hi)

\* sub occurs in s at position i
OccursAt(s, sub, i) ==
  /\ i >= 1
  /\ i + Len(sub) - 1 <= Len(s)
  /\ SubSeq(s, i, i + Len(sub) - 1) = sub

\* sub in s
Contains(s, sub) == \E i \in 1..(Len(s) + 1) : OccursAt(s, sub, i)

\* s.replace(sub, val) for non-empty sub: leftmost non-overlapping occurrences
RECURSIVE ReplaceFrom(_, _, _, _)
ReplaceFrom(s, sub, val, i) ==
  IF i > Len(s) THEN <<>>
  ELSE IF OccursAt(s, sub, i) THEN val \o ReplaceFrom(s, sub, val, i + Len(sub))
  ELSE <<s[i]>> \o ReplaceFrom(s, sub, val, i + 1)

Replace(s, sub, val) == ReplaceFrom(s, sub, val, 1)

\* ------------------------------------------------------------------------
\* Task context: an insertion-ordered dict, a sequence of [k, v] entries
\* ------------------------------------------------------------------------
CtxHas(ctx, key) == \E i \in 1..Len(ctx) : ctx[i].k = key

CtxGet(ctx, key) == ctx[CHOOSE i \in 1..Len(ctx) : ctx[i].k = key].v

\* ctx[key] = v : overwrite in place, or append a new key
CtxSet(ctx, key, v) ==
  IF CtxHas(ctx, key)
  THEN [i \in 1..Len(ctx) |-> IF ctx[i].k = key THEN [k |-> key, v |-> v] ELSE ctx[i]]
  ELSE Append(ctx, [k |-> key, v |-> v])

\* safe_val = str(ctx_val) if ctx_val is not None else ""
SafeVal(v) == IF v.t = "none" THEN <<>> ELSE PyStr(v)

\* ------------------------------------------------------------------------
\* resolve_step_placeholders
\* ------------------------------------------------------------------------
\* Method 1: for ctx_key, ctx_val in task_context.items(): direct replacement
RECURSIVE DirectReplace(_, _, _)
DirectReplace(val, ctx, i) ==
  IF i > Len(ctx) THEN val
  ELSE LET placeholder == <<"{", ctx[i].k, "}">>
       IN IF Contains(val, placeholder)
          THEN DirectReplace(Replace(val, placeholder, SafeVal(ctx[i].v)), ctx, i + 1)
          ELSE DirectReplace(val, ctx, i + 1)

\* index of the first "}" after position i, 0 when there is none
NextClose(s, i) ==
  LET js == {j \in (i + 1)..Len(s) : s[j] = "}"}
  IN IF js = {} THEN 0 ELSE CHOOSE j \in js : \A k \in js : j <= k

\* placeholder_content in task_context, for the stripped group(1)
ContentIsKey(content, ctx) == Len(content) = 1 /\ CtxHas(ctx, content[1])

\* Method 2: re.sub(r"\{\s*([^}]+)\s*\}", regex_replace, new_val)
\* A match starts at a "{" that is followed, at least one character later,
\* by a "}"; [^}]+ takes everything up to that first "}".
RECURSIVE RegexReplaceFrom(_, _, _)
RegexReplaceFrom(s, ctx, i) ==
  IF i > Len(s) THEN <<>>
  ELSE IF s[i] = "{" /\ NextClose(s, i) > i + 1
  THEN LET j == NextClose(s, i)
           content == Strip(SubSeq(s, i + 1, j - 1))
       IN (IF ContentIsKey(content, ctx)
           THEN SafeVal(CtxGet(ctx, content[1]))
           ELSE SubSeq(s, i, j)) \o RegexReplaceFrom(s, ctx, j + 1)
  ELSE <<s[i]>> \o RegexReplaceFrom(s, ctx, i + 1)

RegexReplace(s, ctx) == RegexReplaceFrom(s, ctx, 1)

\* the new_val computed for one string field
ResolveVal(val, ctx) == RegexReplace(DirectReplace(val, ctx, 1), ctx)

resolve_step_placeholders(step, ctx) ==
  [key \in DOMAIN step |->
     IF step[key].t = "str" THEN StrV(ResolveVal(step[key].s, ctx)) ELSE step[key]]

\* ------------------------------------------------------------------------
\* execute_action
\* ------------------------------------------------------------------------
\* automation.get_screen_size(): the size pyautogui reports, here the size
\* the adapter falls back to
ScreenSize == <<1920, 1080>>

click_tolerance == 15

\* int(c * screen) for a normalized coordinate c given in ten-thousandths
ToPixels(c, screen) == (c * screen) \div 10000

\* final_x, final_y of a step that carries direct coordinates
DirectPixel(coords) ==
  <<ToPixels(coords[1], ScreenSize[1]), ToPixels(coords[2], ScreenSize[2])>>

\* final_x, final_y of a treasure-map match: the centre of position [x, y, w, h]
MatchCenter(position) ==
  <<ToPixels(position[1], ScreenSize[1]) + (ToPixels(position[3], ScreenSize[1]) \div 2),
    ToPixels(position[2], ScreenSize[2]) + (ToPixels(position[4], ScreenSize[2]) \div 2)>>

\* (final_x - last_x_px) ** 2 + (final_y - last_y_px) ** 2
DistanceSquared(a, b) == (a[1] - b[1]) * (a[1] - b[1]) + (a[2] - b[2]) * (a[2] - b[2])

\* target.lower().strip() == last_target.lower().strip()
SameTarget(target, last_target) == Strip(Lower(target.s)) = Strip(Lower(last_target.s))

\* the context holds the last click: the guard's outer and inner conditions
HasLastClick(task_context) ==
  /\ Len(task_context) > 0
  /\ CtxHas(task_context, "last_click_coords")
  /\ CtxHas(task_context, "last_click_target")
  /\ CtxGet(task_context, "last_click_coords").t = "tuple"

\* The duplicate-click guard of the direct-coordinate path: "click" when
\* should_click stays True, "skip" when it is set to False, "raise" when
\* .lower() is called on a target that is None.
GuardDirect(task_context, final, target) ==
  IF ~HasLastClick(task_context) THEN "click"
  ELSE LET last_coords == CtxGet(task_context, "last_click_coords").p
           last_target == CtxGet(task_context, "last_click_target")
           d2 == DistanceSquared(final, last_coords)
       IN IF d2 <= 2 * 2 THEN "skip"
          ELSE IF d2 < click_tolerance * click_tolerance
          THEN (IF target.t # "str" \/ last_target.t # "str" THEN "raise"
                ELSE IF SameTarget(target, last_target) THEN "skip" ELSE "click")
          ELSE "click"

\* GuardSymbolic without the rule for identical coordinates
GuardSymbolicByNameOnly(task_context, final, target) ==
  IF ~HasLastClick(task_context) THEN "click"
  ELSE LET last_coords == CtxGet(task_context, "last_click_coords").p
           last_target == CtxGet(task_context, "last_click_target")
           d2 == DistanceSquared(final, last_coords)
       IN IF d2 < click_tolerance * click_tolerance
          THEN (IF target.t # "str" \/ last_target.t # "str" THEN "raise"
                ELSE IF SameTarget(target, last_target) THEN "skip" ELSE "click")
          ELSE "click"

\* The duplicate-click guard of the symbolic-target path (the same text a
\* second time in the source).
GuardSymbolic(task_context, final, target) ==
  IF ~HasLastClick(task_context) THEN "click"
  ELSE LET last_coords == CtxGet(task_context, "last_click_coords").p
           last_target == CtxGet(task_context, "last_click_target")
           d2 == DistanceSquared(final, last_coords)
       IN IF d2 <= 2 * 2 THEN "skip"
          ELSE IF d2 < click_tolerance * click_tolerance
          THEN (IF target.t # "str" \/ last_target.t # "str" THEN "raise"
                ELSE IF SameTarget(target, last_target) THEN "skip" ELSE "click")
          ELSE "click"

\* one call of the actuation capability
Call(kind, pos, text) == [kind |-> kind, pos |-> pos, text |-> text]

\* what execute_action leaves behind: the context, the capability calls it
\* made, whether an exception left it, and for a click step the pixel
\* position and the guard's decision
Outcome(ctx, made, raised, final, decision) ==
  [ctx |-> ctx, made |-> made, raised |-> raised, final |-> final, decision |-> decision]

\* ClickOrSkip that treats a suppressed click as a failure of the step
ClickOrSkipFailsSuppressed(guard, task_context, final, target, act, now) ==
  CASE guard = "raise" -> Outcome(task_context, <<>>, TRUE, final, "raise")
    [] guard = "skip" ->
         Outcome(CtxSet(task_context, "last_skipped_target", target), <<>>, TRUE, final, "skip")
    [] OTHER ->
         IF act = "raise"
         THEN Outcome(task_context, <<Call("click", final, <<>>)>>, TRUE, final, "click")
         ELSE Outcome(
                CtxSet(CtxSet(CtxSet(task_context,
                  "last_click_coords", TupV(final[1], final[2])),
                  "last_click_target", target),
                  "last_click_time", NumV(now)),
                <<Call("click", final, <<>>)>>, FALSE, final, "click")

\* ClickOrSkip with the skipped target written to last_click_target
ClickOrSkipStoresSkipped(guard, task_context, final, target, act, now) ==
  CASE guard = "raise" -> Outcome(task_context, <<>>, TRUE, final, "raise")
    [] guard = "skip" ->
         Outcome(CtxSet(task_context, "last_click_target", target), <<>>, FALSE, final, "skip")
    [] OTHER ->
         IF act = "raise"
         THEN Outcome(task_context, <<Call("click", final, <<>>)>>, TRUE, final, "click")
         ELSE Outcome(
                CtxSet(CtxSet(CtxSet(task_context,
                  "last_click_coords", TupV(final[1], final[2])),
                  "last_click_target", target),
                  "last_click_time", NumV(now)),
                <<Call("click", final, <<>>)>>, FALSE, final, "click")

\* if should_click: automation.click(...), then store the click; else note
\* the skipped target.  act = "raise": the capability call raises.
ClickOrSkip(guard, task_context, final, target, act, now) ==
  CASE guard = "raise" -> Outcome(task_context, <<>>, TRUE, final, "raise")
    [] guard = "skip" ->
         Outcome(CtxSet(task_context, "last_skipped_target", target), <<>>, FALSE, final, "skip")
    [] OTHER ->
         IF act = "raise"
         THEN Outcome(task_context, <<Call("click", final, <<>>)>>, TRUE, final, "click")
         ELSE Outcome(
                CtxSet(CtxSet(CtxSet(task_context,
                  "last_click_coords", TupV(final[1], final[2])),
                  "last_click_target", target),
                  "last_click_time", NumV(now)),
                <<Call("click", final, <<>>)>>, FALSE, final, "click")

\* automation.move_mouse(...), then store the movement
MoveTo(task_context, final, target, act) ==
  IF act = "raise"
  THEN Outcome(task_context, <<Call("move", final, <<>>)>>, TRUE, final, "none")
  ELSE Outcome(
         CtxSet(CtxSet(task_context, "last_move_coords", TupV(final[1], final[2])),
                "last_move_target", target),
         <<Call("move", final, <<>>)>>, FALSE, final, "none")

NoPixel == <<0, 0>>

\* AutomationAdapter.click and move_mouse have no try/except: whatever
\* fails in them raises
Unguarded(act) == IF act = "ok" THEN "ok" ELSE "raise"

\* match: the result of match_target_in_treasure_map on the live map, NoneV
\* or a block whose position is match.pos; act: what the capability call does
execute_action(parsed_action, match, act, now, task_context) ==
  LET action_type == parsed_action.type.s
      target == parsed_action.target
      direct_coords == parsed_action.coordinates
      text == parsed_action.text.s
      nothing == Outcome(task_context, <<>>, FALSE, NoPixel, "none")
  IN CASE action_type = <<"open">> ->
            IF target.t = "str" /\ Len(target.s) > 0 /\ target.s[1] = "http"
            THEN Outcome(task_context, <<Call("open", NoPixel, target.s)>>, FALSE, NoPixel, "none")
            ELSE nothing
       [] action_type \in {<<"move">>, <<"hover">>} ->
            IF Truthy(direct_coords)
            THEN MoveTo(task_context, DirectPixel(direct_coords.p), target, Unguarded(act))
            ELSE IF Truthy(target)
            THEN (IF match.t = "block"
                  THEN MoveTo(task_context, MatchCenter(match.pos), target, Unguarded(act))
                  ELSE nothing)
            ELSE nothing
       [] action_type = <<"click">> ->
            IF Truthy(direct_coords)
            THEN LET final == DirectPixel(direct_coords.p)
                 IN ClickOrSkip(GuardDirect(task_context, final, target),
                                task_context, final, target, Unguarded(act), now)
            ELSE IF Truthy(target)
            THEN (IF match.t = "block"
                  THEN LET final == MatchCenter(match.pos)
                       IN ClickOrSkip(GuardSymbolic(task_context, final, target),
                                      task_context, final, target, Unguarded(act), now)
                  ELSE Outcome(task_context, <<>>, FALSE, NoPixel, "nomatch"))
            ELSE nothing
       [] action_type = <<"key">> ->
            LET key == Strip(Lower(text))
            IN IF key = <<>> THEN nothing
               ELSE IF Contains(key, <<"+">>)
               THEN Outcome(task_context, <<Call("key_combo", NoPixel, key)>>, FALSE, NoPixel, "none")
               ELSE Outcome(task_context, <<Call("key", NoPixel, key)>>, FALSE, NoPixel, "none")
       [] action_type = <<"type">> ->
            IF text # <<>>
            THEN Outcome(task_context, <<Call("paste", NoPixel, text)>>, act = "raise", NoPixel, "none")
            ELSE nothing
       [] OTHER -> nothing

\* ------------------------------------------------------------------------
\* AutomationConverter: the reliability checks
\* ------------------------------------------------------------------------
\* A recorded action: event, rel_position (present or not; x, y in
\* ten-thousandths of the window), the window (app, title, alpha in percent,
\* width, height; a missing key is its default), text, key, and what the OCR
\* of the crop screenshot gives (a token sequence; <<>> when it gives nothing)
Action(event, has_pos, pos, app, title, alpha, width, height, text, key, ocr) ==
  [event |-> event, has_pos |-> has_pos, pos |-> pos, app |-> app, title |-> title,
   alpha |-> alpha, width |-> width, height |-> height, text |-> text, key |-> key,
   ocr |-> ocr]

\* action.get("rel_position", [0, 0])
RelPosition(action) == IF action.has_pos THEN action.pos ELSE <<0, 0>>

\* action_type.title()
TitleCase(event) ==
  CASE event = "click" -> "Click"
    [] event = "type" -> "Type"
    [] event = "key" -> "Key"
    [] OTHER -> "Scroll"

\* _generate_fallback_target_name
GenerateFallbackTargetName(action) ==
  IF Contains(action.title, <<"localhost">>)
  THEN <<TitleCase(action.event), " ", "Element">>
  ELSE <<action.app, " ", TitleCase(action.event)>>

\* a token sequence holds one of the words
HoldsWord(s, words) == \E k \in 1..Len(s) : s[k] \in words

\* s with the given tokens removed
RECURSIVE Without(_, _)
Without(s, words) ==
  IF s = <<>> THEN <<>>
  ELSE (IF Head(s) \in words THEN <<>> ELSE <<Head(s)>>) \o Without(Tail(s), words)

\* _clean_target_name: special characters removed, whitespace normalised
\* (the texts here stay under the limit of 30 characters)
CleanTargetName(text) == Strip(Without(text, {"!", ":"}))

\* extract_target_text_from_coordinates: the cleaned OCR text, or the
\* fallback name when there is no crop or the OCR gives no text longer than
\* one character
ExtractTargetText(action) ==
  IF Strip(action.ocr) # <<>> THEN CleanTargetName(Strip(action.ocr))
  ELSE GenerateFallbackTargetName(action)

\* _suggest_target_from_ocr
SuggestTargetFromOcr(ocr_text) ==
  LET cleaned == CleanTargetName(ocr_text)
      lower_text == Lower(cleaned)
  IN IF HoldsWord(lower_text, {"button", "btn", "click"})
     THEN Strip(Without(cleaned, {"button", "btn"}))
     ELSE IF HoldsWord(lower_text, {"menu", "nav", "link"}) THEN cleaned
     ELSE IF HoldsWord(lower_text, {"input", "field", "text"}) THEN <<"text_input">>
     ELSE cleaned

\* action.get("key", action.get("text", default)), a missing entry being <<>>
KeyValue(action, default) ==
  IF action.key # <<>> THEN action.key
  ELSE IF action.text # <<>> THEN action.text
  ELSE default

\* len(ocr_result.strip()) > 2, with "OK" the text of two characters
LongerThanTwo(s) == Strip(s) # <<>> /\ Strip(s) # <<"OK">>

\* the result of one check: (passed, target) or an exception
CheckOk(passed, target) == [raised |-> FALSE, passed |-> passed, target |-> target]

CheckRaises == [raised |-> TRUE, passed |-> FALSE, target |-> <<>>]

\* check_coordinates: for an event other than click, type and key the final
\* return names detection_inf, which is not defined: NameError
check_coordinates(action) ==
  CASE action.event = "click" ->
         LET ocr_result == ExtractTargetText(action)
             pos == RelPosition(action)
         IN IF ocr_result # <<>> /\ LongerThanTwo(ocr_result)
                 /\ Lower(ocr_result)[1] # "something"
            THEN CheckOk(TRUE, SuggestTargetFromOcr(ocr_result))
            ELSE IF Contains(action.title, <<"Learning Loop">>)
            THEN CheckOk(TRUE,
                   IF pos[2] < 3000 THEN <<"top_area">>
                   ELSE IF pos[2] > 8000 THEN <<"bottom_button">>
                   ELSE IF pos[1] < 5000 /\ 3000 < pos[2] /\ pos[2] < 7000 THEN <<"left_control">>
                   ELSE <<"main_area">>)
            ELSE CheckOk(TRUE, GenerateFallbackTargetName(action))
    [] action.event = "type" -> CheckOk(TRUE, <<"text_input">>)
    [] action.event = "key" ->
         CheckOk(TRUE, <<"key_">> \o KeyValue(action, <<"unknown">>))
    [] OTHER -> CheckRaises

\* verify_window: every branch returns True
verify_window(action) == TRUE

\* test_compatibility
test_compatibility(action) ==
  LET rel_pos == RelPosition(action)
  IN IF action.alpha < 10 THEN FALSE
     ELSE IF rel_pos[1] < 0 \/ rel_pos[1] > 10000 \/ rel_pos[2] < 0 \/ rel_pos[2] > 10000 THEN FALSE
     ELSE IF action.width < 100 \/ action.height < 100 THEN FALSE
     ELSE TRUE

\* test_sizes of analyze_resolution
TestSizes == <<<<1920, 1080>>, <<2560, 1440>>, <<3840, 2160>>>>

\* analyze_resolution: 10 < test_x < width - 10 and 10 < test_y < height - 10
\* on each test size; passes when success_rate >= 0.6
analyze_resolution(action) ==
  LET rel_pos == RelPosition(action)
      works(size) ==
        /\ 10 * 10000 < rel_pos[1] * size[1]
        /\ rel_pos[1] * size[1] < (size[1] - 10) * 10000
        /\ 10 * 10000 < rel_pos[2] * size[2]
        /\ rel_pos[2] * size[2] < (size[2] - 10) * 10000
      working_count == Cardinality({k \in 1..Len(TestSizes) : works(TestSizes[k])})
  IN working_count * 10 >= 6 * Len(TestSizes)

\* validate_position: confidence in tenths from the number of targeting options
validate_position(action) ==
  LET option_count ==
        (IF action.has_pos THEN 1 ELSE 0)
        + (IF action.app # "" /\ action.app # "Unknown" THEN 1 ELSE 0)
        + (IF action.title # <<>> /\ action.title # <<"Unknown">> THEN 1 ELSE 0)
        + (IF action.event # "" THEN 1 ELSE 0)
      confidence == IF option_count >= 3 THEN 9 ELSE IF option_count = 2 THEN 7 ELSE 4
  IN confidence >= 7

\* the content check of type and key actions
text_ok(action) ==
  IF action.event = "type" THEN Strip(action.text) # <<>>
  ELSE KeyValue(action, <<>>) # <<>>

\* sum(checks_passed)
PassedCount(checks) == Cardinality({k \in 1..Len(checks) : checks[k].passed})

\* a summary that trusts a click on 3 of 5 checks
ClickSummaryThreeOfFive(passed_count) ==
  [checks_passed |-> passed_count, total_checks |-> 5, reliable |-> passed_count >= 3,
   confidence |-> IF passed_count = 5 THEN "high"
                  ELSE IF passed_count >= 4 THEN "medium" ELSE "low"]

\* the summary of a click action: 4 of 5 checks needed
ClickSummary(passed_count) ==
  [checks_passed |-> passed_count, total_checks |-> 5, reliable |-> passed_count >= 4,
   confidence |-> IF passed_count = 5 THEN "high"
                  ELSE IF passed_count >= 4 THEN "medium" ELSE "low"]

\* a summary that trusts a type or key action only when its content check
\* passed too
KeyboardSummaryThreeOfThree(passed_count) ==
  [checks_passed |-> passed_count, total_checks |-> 3, reliable |-> passed_count = 3,
   confidence |-> IF passed_count = 3 THEN "high"
                  ELSE IF passed_count >= 2 THEN "medium" ELSE "low"]

\* the summary of a type or key action: 2 of 3 checks needed
KeyboardSummary(passed_count) ==
  [checks_passed |-> passed_count, total_checks |-> 3, reliable |-> passed_count >= 2,
   confidence |-> IF passed_count = 3 THEN "high"
                  ELSE IF passed_count >= 2 THEN "medium" ELSE "low"]

\* the summary of any other action: 1 of 2 checks needed
OtherSummary(passed_count) ==
  [checks_passed |-> passed_count, total_checks |-> 2, reliable |-> passed_count >= 1,
   confidence |-> IF passed_count >= 2 THEN "medium" ELSE "low"]

Check(name, passed) == [name |-> name, passed |-> passed]

Results(raised, target, checks, summary) ==
  [raised |-> raised, target |-> target, checks |-> checks, summary |-> summary]

\* run_checks: the checks of the action in the order of the "checks" dict,
\* and the summary; an exception of a check leaves run_checks
run_checks(action) ==
  LET coords == check_coordinates(action)
  IN IF coords.raised THEN Results(TRUE, <<>>, <<>>, OtherSummary(0))
     ELSE LET base == <<Check("coordinates", coords.passed),
                        Check("window", verify_window(action))>>
          IN IF action.event = "click"
             THEN LET checks == base \o <<Check("compatibility", test_compatibility(action)),
                                         Check("resolution", analyze_resolution(action)),
                                         Check("position", validate_position(action))>>
                  IN Results(FALSE, coords.target, checks, ClickSummary(PassedCount(checks)))
             ELSE IF action.event \in {"type", "key"}
             THEN LET checks == Append(base, Check("text_content", text_ok(action)))
                  IN Results(FALSE, coords.target, checks, KeyboardSummary(PassedCount(checks)))
             ELSE Results(FALSE, coords.target, base, OtherSummary(PassedCount(base)))

\* ------------------------------------------------------------------------
\* AutomationConverter: create_step and the loop of convert_to_automation
\* ------------------------------------------------------------------------
NoStep == [step |-> 0, action |-> "", target |-> <<>>, confidence |-> "", checks_passed |-> 0,
           verified |-> FALSE, payload |-> <<>>]

\* the payload of a step: the action-specific details
StepDetails(action) ==
  CASE action.event = "click" -> <<"left_click">>
    [] action.event = "type" -> <<"text_entry">> \o action.text
    [] action.event = "key" -> <<"keyboard">> \o KeyValue(action, <<"unknown">>)
    [] OTHER -> <<>>

\* a create_step that does not look at the summary
CreateStepAlways(action, step_number, check_results) ==
  [step |-> step_number,
   action |-> action.event,
   target |-> check_results.target,
   confidence |-> check_results.summary.confidence,
   checks_passed |-> check_results.summary.checks_passed,
   verified |-> TRUE,
   payload |-> StepDetails(action)]

\* create_step: None unless the summary says reliable
create_step(action, step_number, check_results) ==
  IF ~check_results.summary.reliable THEN NoStep
  ELSE [step |-> step_number,
        action |-> action.event,
        target |-> check_results.target,
        confidence |-> check_results.summary.confidence,
        checks_passed |-> check_results.summary.checks_passed,
        verified |-> TRUE,
        payload |-> StepDetails(action)]

\* a count that only notes that a check failed at all
RECURSIVE CountFailedOnce(_, _, _)
CountFailedOnce(failed_checks, checks, k) ==
  IF k > Len(checks) THEN failed_checks
  ELSE IF checks[k].passed THEN CountFailedOnce(failed_checks, checks, k + 1)
  ELSE IF checks[k].name \in DOMAIN failed_checks
  THEN CountFailedOnce(failed_checks, checks, k + 1)
  ELSE CountFailedOnce(failed_checks @@ (checks[k].name :> 1), checks, k + 1)

\* failed_checks after the failing checks of one dropped action are counted
RECURSIVE CountFailed(_, _, _)
CountFailed(failed_checks, checks, k) ==
  IF k > Len(checks) THEN failed_checks
  ELSE IF checks[k].passed THEN CountFailed(failed_checks, checks, k + 1)
  ELSE IF checks[k].name \in DOMAIN failed_checks
  THEN CountFailed([failed_checks EXCEPT ![checks[k].name] = @ + 1], checks, k + 1)
  ELSE CountFailed(failed_checks @@ (checks[k].name :> 1), checks, k + 1)

\* a tally that forgets the dropped actions
TallyReliableOnly(check_summary, step, results) ==
  IF step # NoStep
  THEN [check_summary EXCEPT !.reliable_steps = @ + 1]
  ELSE check_summary

\* check_summary after one action: if step: ... else: ...
Tally(check_summary, step, results) ==
  IF step # NoStep
  THEN [check_summary EXCEPT !.reliable_steps = @ + 1]
  ELSE [check_summary EXCEPT !.unreliable_steps = @ + 1,
                             !.failed_checks = CountFailed(@, results.checks, 1)]

\* ------------------------------------------------------------------------
\* vision_fusion: the combined treasure map
\* ------------------------------------------------------------------------
\* Normalised coordinates are in hundredths: 40 is 0.4. A position that is
\* in pixels in the code (the boxes of the component detector) is the pixel
\* count times 100, so that every position is read on the one scale.

\* width and height of the screenshot, image.shape[:2] in reverse
ImageSize == <<200, 100>>

\* a treasure-map entry
Entry(type, label, position, source) ==
  [type |-> type, label |-> label, position |-> position, source |-> source]

\* _build_ocr_blocks: the blocks with a non-blank text and a bbox of four
\* numbers, y flipped to a top-left origin when normalize_topdown
RECURSIVE BuildOcrBlocks(_, _)
BuildOcrBlocks(text_blocks, normalize_topdown) ==
  IF text_blocks = <<>> THEN <<>>
  ELSE LET block == Head(text_blocks)
           text == Strip(block.text)
           bbox == block.bbox
           flipped == <<bbox[1], 100 - bbox[2] - bbox[4], bbox[3], bbox[4]>>
       IN (IF text # <<>> /\ Len(bbox) = 4
           THEN <<Entry("text", text, IF normalize_topdown THEN flipped ELSE bbox, "ocr")>>
           ELSE <<>>)
          \o BuildOcrBlocks(Tail(text_blocks), normalize_topdown)

Max(a, b) == IF a >= b THEN a ELSE b

Min(a, b) == IF a <= b THEN a ELSE b

\* a normalised box (hundredths) in pixels of the image
OcrPix(box) ==
  <<(box[1] * ImageSize[1]) \div 100, (box[2] * ImageSize[2]) \div 100,
    (box[3] * ImageSize[1]) \div 100, (box[4] * ImageSize[2]) \div 100>>

\* a stored component position (pixels times 100) in pixels
CvPix(position) ==
  <<position[1] \div 100, position[2] \div 100, position[3] \div 100, position[4] \div 100>>

\* the area of the intersection of two boxes
InterArea(boxA, boxB) ==
  LET xA == Max(boxA[1], boxB[1])
      yA == Max(boxA[2], boxB[2])
      xB == Min(boxA[1] + boxA[3], boxB[1] + boxB[3])
      yB == Min(boxA[2] + boxA[4], boxB[2] + boxB[4])
  IN Max(0, xB - xA) * Max(0, yB - yA)

\* iou(boxA, boxB) > 0.05. The code divides the component box by the image
\* size and takes the ratio of normalised areas; the ratio is the same in
\* pixels, where the areas are whole numbers, and the 1e-6 added to the
\* denominator only keeps a ratio of exactly 0.05 from counting
IouAboveThreshold(boxA, boxB) ==
  LET interArea == InterArea(boxA, boxB)
  IN 20 * interArea > boxA[3] * boxA[4] + boxB[3] * boxB[4] - interArea

\* is_center_near: the centres are less than 30 pixels apart
is_center_near(boxA, boxB) ==
  LET dx == (2 * boxA[1] + boxA[3]) - (2 * boxB[1] + boxB[3])
      dy == (2 * boxA[2] + boxA[4]) - (2 * boxB[2] + boxB[4])
  IN dx * dx + dy * dy < 4 * 30 * 30

\* the text block and the component block are taken for the same element
Fuses(ocr, cv) ==
  \/ IouAboveThreshold(OcrPix(ocr.position), CvPix(cv.position))
  \/ is_center_near(OcrPix(ocr.position), CvPix(cv.position))

\* the blocks of a sequence at the kept positions, in order
RECURSIVE SelectBlocks(_, _, _)
SelectBlocks(blocks, kept, k) ==
  IF k > Len(blocks) THEN <<>>
  ELSE (IF k \in kept THEN <<blocks[k]>> ELSE <<>>) \o SelectBlocks(blocks, kept, k + 1)

\* the inner loop "for j, cv in enumerate(cv_blocks)" for one text block: an
\* overlapping entry for each component block it fuses with
RECURSIVE FusedEntries(_, _, _)
FusedEntries(ocr, cv_blocks, j) ==
  IF j > Len(cv_blocks) THEN <<>>
  ELSE (IF Fuses(ocr, cv_blocks[j])
        THEN <<Entry("block", ocr.label, ocr.position, "overlapping")>>
        ELSE <<>>)
       \o FusedEntries(ocr, cv_blocks, j + 1)

\* the outer loop "for i, ocr in enumerate(ocr_blocks)"
RECURSIVE FusedAll(_, _, _)
FusedAll(ocr_blocks, cv_blocks, i) ==
  IF i > Len(ocr_blocks) THEN <<>>
  ELSE FusedEntries(ocr_blocks[i], cv_blocks, 1) \o FusedAll(ocr_blocks, cv_blocks, i + 1)

\* generate_combined_treasure_map: the text-only map when the vision layer
\* is off; otherwise the overlapping entries, then the text blocks that
\* fused with nothing, then the component blocks that fused with nothing
generate_combined_treasure_map(text_blocks, ui_blocks, vision) ==
  LET ocr_blocks == BuildOcrBlocks(text_blocks, TRUE)
      cv_blocks == SelectBlocks(ui_blocks,
                                {k \in 1..Len(ui_blocks) : ui_blocks[k].source = "cv"}, 1)
      matched_ocr == {i \in 1..Len(ocr_blocks) :
                        \E j \in 1..Len(cv_blocks) : Fuses(ocr_blocks[i], cv_blocks[j])}
      matched_cv == {j \in 1..Len(cv_blocks) :
                       \E i \in 1..Len(ocr_blocks) : Fuses(ocr_blocks[i], cv_blocks[j])}
  IN IF ~vision THEN ocr_blocks
     ELSE FusedAll(ocr_blocks, cv_blocks, 1)
          \o SelectBlocks(ocr_blocks, (1..Len(ocr_blocks)) \ matched_ocr, 1)
          \o SelectBlocks(cv_blocks, (1..Len(cv_blocks)) \ matched_cv, 1)

\* ------------------------------------------------------------------------
\* vision_fusion: match_target_in_treasure_map
\* ------------------------------------------------------------------------
\* Labels and targets are sequences of characters here, so that "in" and
\* len() are those of the strings. A similarity or a score is a fraction
\* <<numerator, denominator>> with a positive denominator.

Frac(n, d) == <<n, d>>

\* a > b and a >= b for fractions
FracGreater(a, b) == a[1] * b[2] > b[1] * a[2]

FracAtLeast(a, b) == a[1] * b[2] >= b[1] * a[2]

\* the length of the common run of a from i and b from j, within the bounds
RECURSIVE CommonRun(_, _, _, _, _, _)
CommonRun(a, i, ahi, b, j, bhi) ==
  IF i > ahi \/ j > bhi \/ a[i] # b[j] THEN 0
  ELSE 1 + CommonRun(a, i + 1, ahi, b, j + 1, bhi)

\* SequenceMatcher.find_longest_match within a[alo..ahi] and b[blo..bhi]:
\* <<i, j, k>> of the longest common block, the one starting earliest in a,
\* and of those the one starting earliest in b; k = 0 when there is none
FindLongestMatch(a, alo, ahi, b, blo, bhi) ==
  LET starts == (alo..ahi) \X (blo..bhi)
      run(p) == CommonRun(a, p[1], ahi, b, p[2], bhi)
      best == CHOOSE p \in starts :
                \A q \in starts :
                  \/ run(p) > run(q)
                  \/ run(p) = run(q) /\ p[1] < q[1]
                  \/ run(p) = run(q) /\ p[1] = q[1] /\ p[2] <= q[2]
  IN IF starts = {} THEN <<alo, blo, 0>> ELSE <<best[1], best[2], run(best)>>

\* the number of matched characters: the longest block, then the same to
\* its left and to its right (SequenceMatcher.get_matching_blocks)
RECURSIVE MatchedCount(_, _, _, _, _, _)
MatchedCount(a, alo, ahi, b, blo, bhi) ==
  LET m == FindLongestMatch(a, alo, ahi, b, blo, bhi)
  IN IF m[3] = 0 THEN 0
     ELSE m[3] + MatchedCount(a, alo, m[1] - 1, b, blo, m[2] - 1)
               + MatchedCount(a, m[1] + m[3], ahi, b, m[2] + m[3], bhi)

\* SequenceMatcher(None, a, b).ratio(): 2 * matches / (len(a) + len(b)), 1.0
\* for two empty strings
Ratio(a, b) ==
  IF Len(a) + Len(b) = 0 THEN Frac(1, 1)
  ELSE Frac(2 * MatchedCount(a, 1, Len(a), b, 1, Len(b)), Len(a) + Len(b))

\* calculate_match_quality
calculate_match_quality(tgt, label) ==
  IF tgt = label THEN Frac(1, 1)
  ELSE IF Contains(label, tgt) THEN Frac(9 * Len(label) + Len(tgt), 10 * Len(label))
  ELSE Ratio(tgt, label)

\* a block that is a dictionary
IsDict(block) == block.type # "notdict"

\* block.get("label", "").lower().strip()
BlockLabel(block) == Strip(Lower(block.label))

\* target_lower in label or label in target_lower
ContainsEitherWay(target_lower, label) ==
  Contains(label, target_lower) \/ Contains(target_lower, label)

\* a filter that keeps any label similar enough, contained or not
IsCandidateBySimilarity(block, target_lower) ==
  /\ IsDict(block)
  /\ FracGreater(calculate_match_quality(target_lower, BlockLabel(block)), Frac(1, 2))

\* the block becomes a match: contained one way or the other, and
\* similarity > 0.5
IsCandidate(block, target_lower) ==
  /\ IsDict(block)
  /\ ContainsEitherWay(target_lower, BlockLabel(block))
  /\ FracGreater(calculate_match_quality(target_lower, BlockLabel(block)), Frac(1, 2))

\* the characters of the words score_match_generically looks for ("bullet"
\* and "arrow" stand for the bullet and the arrow character)
InteractiveIndicators ==
  {<<"b", "u", "t", "t", "o", "n">>, <<"bullet">>, <<">">>, <<"arrow">>,
   <<"c", "l", "i", "c", "k">>}

NonClickable ==
  {<<"l", "a", "b", "e", "l", ":">>, <<"t", "i", "t", "l", "e", ":">>,
   <<"h", "e", "a", "d", "e", "r", ":">>,
   <<"b", "r", "e", "a", "d", "c", "r", "u", "m", "b">>}

SearchIndicators ==
  {<<"s", "e", "a", "r", "c", "h">>, <<"i", "n", "p", "u", "t">>, <<"|">>,
   <<"t", "y", "p", "e", " ", "h", "e", "r", "e">>, <<"e", "n", "t", "e", "r", " ">>}

\* score_match_generically, as a fraction of hundredths of a point:
\* similarity * 40, the size score twice, the position score, the UI score
\* one and a half times, the source score; never below zero
score_match_generically(block, label, similarity) ==
  IF ~IsDict(block) \/ Len(block.position) # 4 THEN Frac(0, 1)
  ELSE LET x == block.position[1]
           y == block.position[2]
           w == block.position[3]
           h == block.position[4]
           size_score == Min(2 * w * h, 2000)
           position_score ==
             (IF 20 < x /\ x < 80 /\ 20 < y /\ y < 80 THEN 8
              ELSE IF 10 < x /\ x < 90 /\ 10 < y /\ y < 90 THEN 5
              ELSE 2)
             + (IF y > 30 THEN 2 ELSE 0)
           ui_score ==
             (IF \E w1 \in InteractiveIndicators : Contains(label, w1) THEN 8 ELSE 0)
             - (IF \E w2 \in NonClickable : Contains(label, w2) THEN 5 ELSE 0)
             - (IF \E w3 \in SearchIndicators : Contains(label, w3) THEN 3 ELSE 0)
           source_score ==
             CASE block.source = "ocr" -> 3
               [] block.source = "overlapping" -> 5
               [] block.source = "cv" -> 4
               [] OTHER -> 0
           rest == size_score + 100 * position_score + 150 * ui_score + 100 * source_score
           total == 4000 * similarity[1] + rest * similarity[2]
       IN IF total < 0 THEN Frac(0, 1) ELSE Frac(total, similarity[2])

\* the score of the block at position k of the map, as a match for the target
ScoreOf(tmap, k, target_lower) ==
  score_match_generically(tmap[k], BlockLabel(tmap[k]),
                          calculate_match_quality(target_lower, BlockLabel(tmap[k])))

\* a choice that takes the last of the best-scored matches
BestMatchLast(tmap, matches, target_lower) ==
  CHOOSE k \in matches :
    \A m \in matches :
      \/ FracGreater(ScoreOf(tmap, k, target_lower), ScoreOf(tmap, m, target_lower))
      \/ FracAtLeast(ScoreOf(tmap, k, target_lower), ScoreOf(tmap, m, target_lower)) /\ k >= m

\* max(scored_matches, key=lambda x: x[0]): the first of the matches, in the
\* order they were found, that no other match beats
BestMatch(tmap, matches, target_lower) ==
  CHOOSE k \in matches :
    \A m \in matches :
      \/ FracGreater(ScoreOf(tmap, k, target_lower), ScoreOf(tmap, m, target_lower))
      \/ FracAtLeast(ScoreOf(tmap, k, target_lower), ScoreOf(tmap, m, target_lower)) /\ k <= m

\* match_target_in_treasure_map(treasure_map, target): the block, or NoEntry
\* for None
NoEntry == Entry("none", <<>>, <<>>, "none")

match_target_in_treasure_map(tmap, tgt) ==
  IF tmap = <<>> \/ ~Truthy(tgt) THEN NoEntry
  ELSE LET target_lower == Strip(Lower(tgt.s))
           matches == {k \in 1..Len(tmap) : IsCandidate(tmap[k], target_lower)}
       IN IF matches = {} THEN NoEntry
          ELSE IF Cardinality(matches) = 1 THEN tmap[CHOOSE k \in matches : TRUE]
          ELSE tmap[BestMatch(tmap, matches, target_lower)]

\* ------------------------------------------------------------------------
\* State
\* ------------------------------------------------------------------------
VARIABLES
  rs_step,      \* resolve_step_placeholders: the step given
  rs_ctx,       \* resolve_step_placeholders: the task context given
  rs_out,       \* resolve_step_placeholders: the step returned
  rs_pc,        \* "call" before the call, "return" after it
  steps,        \* ping_pong_loop: the symbolic steps of the task
  items,        \* ping_pong_loop: items_to_process
  item_idx,     \* position of current_item in items_to_process (from 1)
  step_index,   \* ping_pong_loop: step_index
  pulse,        \* ping_pong_loop: pulse
  task_context, \* the context of the current item (an ordered dict)
  calls,        \* the number of capability calls made so far
  pc,           \* "for", "while", "after", "done"; "guard" under SpecGuard
  last,         \* history: what the last pulse / execute_action call did
  last_issued,  \* history: the last click issued against task_context
  refused_at,   \* history: calls when a pulse first refused a step, or -1
  last_in,      \* history: what the resolver and the capability gave the last pulse
  actions,        \* the recorded actions of the learning session
  quality_threshold, \* request.quality_threshold, in percent
  endpoint,       \* "convert" (/convert) or "export" (/learning/export)
  cv_i,           \* convert_to_automation: i of the action processed next
  reliable_steps, \* convert_to_automation: reliable_steps
  check_summary,  \* convert_to_automation: check_summary
  cv_pc,          \* "load", "loop", "gate", "responded", "error"
  response,       \* what the endpoint answered
  saved,          \* the automation save_automation wrote, or <<>>
  cv_last,        \* history: the action last processed, its results and step
  text_blocks,    \* generate_combined_treasure_map: the text_blocks of the OCR result
  ui_blocks,      \* generate_combined_treasure_map: what run_computer_vision gives
  vision_enabled, \* VISION_ENABLED
  final_blocks,   \* generate_combined_treasure_map: the map returned
  fu_pc,          \* "call" before the call, "return" after it
  treasure_map,   \* match_target_in_treasure_map: treasure_map
  mt_target,      \* match_target_in_treasure_map: target
  matched,        \* match_target_in_treasure_map: the result
  mt_pc,          \* "call" before the call, "return" after it
  th_steps,       \* per run started by /sprint/run: the steps of its task
  th_pc,          \* per run: "idle" (not started), "for", "while", "done"
  th_item,        \* per run: position of current_item in items_to_process
  th_step,        \* per run: step_index
  th_pulse,       \* per run: pulse
  th_ctx,         \* per run: task_context, a local of its ping_pong_loop call
  th_issued,      \* history, per run: the last click it issued for its item
  th_last,        \* history, per run: what its last pulse did
  oc_raw,         \* reconstruct_text_from_ocr: raw_blocks
  oc_lines,       \* reconstruct_text_from_ocr: lines, each with its blocks sorted
  oc_out,         \* reconstruct_text_from_ocr: reconstructed_lines
  oc_pc,          \* "call" before the call, "return" after it
  hq_file,        \* hands: the action-queue file: whether it exists, its actions
  hq_batch,       \* hands_loop: actions, the batch it loaded
  hq_pos,         \* hands_loop: how many actions of the batch were executed
  hq_pc,          \* hands_loop: "load", "exec", "clear", "sleep", "dead"
  hq_made,        \* history: how many actions the producer has written
  hq_done         \* history: per action, how often it was executed

rsVars == <<rs_step, rs_ctx, rs_out, rs_pc>>

runVars == <<steps, items, item_idx, step_index, pulse, task_context, calls, pc,
             last, last_issued, refused_at, last_in>>

cvVars == <<actions, quality_threshold, endpoint, cv_i, reliable_steps, check_summary,
            cv_pc, response, saved, cv_last>>

fuVars == <<text_blocks, ui_blocks, vision_enabled, final_blocks, fu_pc>>

mtVars == <<treasure_map, mt_target, matched, mt_pc>>

visionVars == <<fuVars, mtVars>>

thVars == <<th_steps, th_pc, th_item, th_step, th_pulse, th_ctx, th_issued, th_last>>

ocVars == <<oc_raw, oc_lines, oc_out, oc_pc>>

hqVars == <<hq_file, hq_batch, hq_pos, hq_pc, hq_made, hq_done>>

vars == <<rsVars, runVars, cvVars, visionVars, thVars, ocVars, hqVars>>

\* the value a history variable has before anything happened
NoOutcome == Outcome(<<>>, <<>>, FALSE, NoPixel, "none")

NoClick == [pos |-> NoPixel, target |-> NoneV, time |-> 0, any |-> FALSE]

\* history of one pulse / execute_action call: the event, the step as it was
\* executed, the last click the context held before, and what the call did
History(event, step, before, out) ==
  [event |-> event, step |-> step, before |-> before, final |-> out.final,
   decision |-> out.decision, raised |-> out.raised, made |-> out.made]

NoLast == History("none", <<>>, NoClick, NoOutcome)

\* history of the inputs of one execute_action call: whether the resolver
\* found the target ("none" when it found nothing or was not asked), and
\* what the capability call did ("none" when no capability call was made)
Inputs(match, act, out) ==
  [match |-> match.t,
   act |-> IF out.made # <<>> /\ out.made[1].kind # "open" THEN act ELSE "none"]

NoInputs == [match |-> "none", act |-> "none"]

\* the variables of ping_pong_loop / execute_action while they are not used
RunIdle ==
  /\ steps = <<>>
  /\ items = <<>>
  /\ item_idx = 0
  /\ step_index = 0
  /\ pulse = 0
  /\ task_context = <<>>
  /\ calls = 0
  /\ pc = "idle"
  /\ last = NoLast
  /\ last_issued = NoClick
  /\ refused_at = -1
  /\ last_in = NoInputs

\* the variables of resolve_step_placeholders while it is not used
ResolveIdle ==
  /\ rs_step = [text |-> NoneV, coordinates |-> NoneV]
  /\ rs_ctx = <<>>
  /\ rs_out = [text |-> NoneV, coordinates |-> NoneV]
  /\ rs_pc = "idle"

\* what convert_to_automation has before any action is processed
NoResults == Results(FALSE, <<>>, <<>>, OtherSummary(0))

NoConverted == [i |-> 0, action |-> <<>>, results |-> NoResults, step |-> NoStep]

NoSummary == [total_actions |-> 0, reliable_steps |-> 0, unreliable_steps |-> 0,
              failed_checks |-> <<>>]

NoResponse == [http |-> 0, success |-> FALSE, quality_report |-> NoSummary,
               reliability_rating |-> "", file_path |-> FALSE]

NoSave == [called |-> FALSE, steps |-> <<>>, quality_report |-> NoSummary]

\* the variables of the converter and its endpoints while they are not used
ConvIdle ==
  /\ actions = <<>>
  /\ quality_threshold = 0
  /\ endpoint = "idle"
  /\ cv_i = 0
  /\ reliable_steps = <<>>
  /\ check_summary = NoSummary
  /\ cv_pc = "idle"
  /\ response = NoResponse
  /\ saved = NoSave
  /\ cv_last = NoConverted

\* the variables of generate_combined_treasure_map while it is not used
FusionIdle ==
  /\ text_blocks = <<>>
  /\ ui_blocks = <<>>
  /\ vision_enabled = FALSE
  /\ final_blocks = <<>>
  /\ fu_pc = "idle"

\* the variables of match_target_in_treasure_map while it is not used
MatchIdle ==
  /\ treasure_map = <<>>
  /\ mt_target = NoneV
  /\ matched = NoEntry
  /\ mt_pc = "idle"

\* the runs /sprint/run starts: each is one thread that runs ping_pong_loop
Runs == {1, 2}

\* history of one pulse of a run: the guard's decision, the last click the
\* run's context held before, and the last click the run itself had issued
Pulsed(decision, before, own) == [decision |-> decision, before |-> before, own |-> own]

NoPulsed == Pulsed("none", NoClick, NoClick)

\* no run was started yet
ThreadsIdle ==
  /\ th_steps = [r \in Runs |-> <<>>]
  /\ th_pc = [r \in Runs |-> "idle"]
  /\ th_item = [r \in Runs |-> 0]
  /\ th_step = [r \in Runs |-> 0]
  /\ th_pulse = [r \in Runs |-> 0]
  /\ th_ctx = [r \in Runs |-> <<>>]
  /\ th_issued = [r \in Runs |-> NoClick]
  /\ th_last = [r \in Runs |-> NoPulsed]

\* reconstruct_text_from_ocr is not in use
OcrIdle ==
  /\ oc_raw = <<>>
  /\ oc_lines = <<>>
  /\ oc_out = <<>>
  /\ oc_pc = "idle"

\* the action-queue file: exists says whether the path exists, actions is
\* the JSON list it holds
QueueFile(exists, queued) == [exists |-> exists, actions |-> queued]

\* hands_loop is not running and nothing was written to its queue
HandsIdle ==
  /\ hq_file = QueueFile(FALSE, <<>>)
  /\ hq_batch = <<>>
  /\ hq_pos = 0
  /\ hq_pc = "idle"
  /\ hq_made = 0
  /\ hq_done = <<>>

\* ------------------------------------------------------------------------
\* Specification SpecResolve: resolve_step_placeholders on bounded inputs
\* ------------------------------------------------------------------------
Alphabet == {"{", "}", " ", "variable_1", "unknown"}

Strings(n) == UNION {[1..k -> Alphabet] : k \in 0..n}

\* values of the context variable the placeholders name
ItemValues == {StrV(<<"Mia">>), NoneV}

ResolveContexts ==
  {<<[k |-> "variable_1", v |-> v1], [k |-> "variable_2", v |-> StrV(<<"N">>)]>> :
     v1 \in ItemValues}

ResolveSteps ==
  {[text |-> StrV(s), coordinates |-> c] :
     s \in Strings(MaxLen), c \in {NoneV, TupV(1, 2)}}

InitResolve ==
  /\ rs_step \in ResolveSteps
  /\ rs_ctx \in ResolveContexts
  /\ rs_out = [text |-> NoneV, coordinates |-> NoneV]
  /\ rs_pc = "call"
  /\ RunIdle
  /\ ConvIdle
  /\ FusionIdle
  /\ MatchIdle
  /\ ThreadsIdle
  /\ OcrIdle
  /\ HandsIdle

CallResolve ==
  /\ rs_pc = "call"
  /\ rs_out' = resolve_step_placeholders(rs_step, rs_ctx)
  /\ rs_pc' = "return"
  /\ UNCHANGED <<rs_step, rs_ctx>>
  /\ UNCHANGED <<runVars, cvVars, visionVars, thVars, ocVars, hqVars>>

NextResolve == CallResolve

SpecResolve == InitResolve /\ [][NextResolve]_vars

\* ------------------------------------------------------------------------
\* Steps and inputs of the replay
\* ------------------------------------------------------------------------
Step(type, target, coordinates, text, actor) ==
  [type |-> StrV(<<type>>), target |-> target, coordinates |-> coordinates,
   text |-> text, actor |-> StrV(<<actor>>)]

\* target names: "Send", " send" (the same name but for case and blanks),
\* "Save", and a step that names no target
Send == StrV(<<"Send">>)
SendPadded == StrV(<<" ", "send">>)
Save == StrV(<<"Save">>)

\* direct coordinates in ten-thousandths of the screen: x at pixel 960, 962
\* and 975, y at pixel 540
DirectCoords == {TupV(5000, 5000), TupV(5011, 5000), TupV(5079, 5000)}

\* what match_target_in_treasure_map returns on the live treasure map: None,
\* or a block whose centre is at pixel (960,540), (962,540) or (975,540)
NoMatch == [t |-> "none", pos |-> <<0, 0, 0, 0>>]

Block(position) == [t |-> "block", pos |-> position]

MatchResults ==
  {NoMatch, Block(<<4900, 4900, 209, 204>>), Block(<<4900, 4900, 230, 204>>),
   Block(<<4900, 4900, 365, 204>>)}

\* the results the resolver can give for a step: it is called only for a
\* click, move or hover step that names a target and carries no coordinates
MatchInputs(step) ==
  IF /\ step.type.s \in {<<"click">>, <<"move">>, <<"hover">>}
     /\ ~Truthy(step.coordinates)
     /\ Truthy(step.target)
  THEN MatchResults
  ELSE {NoMatch}

\* what a capability call does: "ok", it works; "raise", the adapter has no
\* pyautogui / pyperclip and raises RuntimeError; "error", the library call
\* inside the adapter method raises
ActResults == {"ok", "raise", "error"}

\* click steps: by direct coordinates (with or without a target name), or by
\* symbolic target
ClickSteps ==
  {Step("click", t, c, NoneV, "automation") : t \in {Send, SendPadded, Save, NoneV}, c \in DirectCoords}
  \cup {Step("click", t, NoneV, NoneV, "automation") : t \in {Send, SendPadded, Save}}

\* ------------------------------------------------------------------------
\* Specification SpecGuard: click steps run one after the other through
\* execute_action against one task context
\* ------------------------------------------------------------------------
MaxClicks == 3

\* original_task_context of ping_pong_loop, for a task summary whose context
\* gives an intent, a platform and variable_2
OriginalTaskContext ==
  <<[k |-> "task_name", v |-> NoneV],
    [k |-> "intent", v |-> StrV(<<"greet">>)],
    [k |-> "platform", v |-> StrV(<<"mail">>)],
    [k |-> "variable_1", v |-> NoneV],
    [k |-> "variable_2", v |-> StrV(<<"N">>)],
    [k |-> "variable_3", v |-> NoneV],
    [k |-> "variable_4", v |-> NoneV],
    [k |-> "notes", v |-> StrV(<<>>)],
    [k |-> "notes_config", v |-> DictV]>>

\* history: the last click a context holds (its last_click_* entries)
HeldClick(ctx) ==
  IF CtxHas(ctx, "last_click_coords") /\ CtxHas(ctx, "last_click_target")
  THEN [pos |-> CtxGet(ctx, "last_click_coords").p,
        target |-> CtxGet(ctx, "last_click_target"),
        time |-> IF CtxHas(ctx, "last_click_time") THEN CtxGet(ctx, "last_click_time").n ELSE 0,
        any |-> TRUE]
  ELSE NoClick

\* history: the click an execute_action call issued, if it issued one
IssuedBy(out, target, now, before) ==
  IF out.decision = "click" /\ ~out.raised
  THEN [pos |-> out.final, target |-> target, time |-> now, any |-> TRUE]
  ELSE before

InitGuard ==
  /\ ResolveIdle
  /\ ConvIdle
  /\ FusionIdle
  /\ MatchIdle
  /\ ThreadsIdle
  /\ OcrIdle
  /\ HandsIdle
  /\ steps = <<>>
  /\ items = <<>>
  /\ item_idx = 0
  /\ step_index = 0
  /\ pulse = 0
  /\ task_context = OriginalTaskContext
  /\ calls = 0
  /\ pc = "guard"
  /\ last = NoLast
  /\ last_issued = NoClick
  /\ refused_at = -1
  /\ last_in = NoInputs

GuardClick ==
  /\ pc = "guard"
  /\ pulse < MaxClicks
  /\ \E step \in ClickSteps, act \in ActResults : \E match \in MatchInputs(step) :
       LET out == execute_action(step, match, act, pulse + 1, task_context)
       IN /\ task_context' = out.ctx
          /\ calls' = calls + Len(out.made)
          /\ last' = History("executed", step, HeldClick(task_context), out)
          /\ last_issued' = IssuedBy(out, step.target, pulse + 1, last_issued)
          /\ last_in' = Inputs(match, act, out)
  /\ pulse' = pulse + 1
  /\ UNCHANGED <<steps, items, item_idx, step_index, pc, refused_at>>
  /\ UNCHANGED <<rsVars, cvVars, visionVars, thVars, ocVars, hqVars>>

NextGuard == GuardClick

SpecGuard == InitGuard /\ [][NextGuard]_vars

\* ------------------------------------------------------------------------
\* Specification SpecRun: ping_pong_loop over the items of a task
\* ------------------------------------------------------------------------
\* the steps a task is made of
RunSteps ==
  {Step("click", Send, TupV(5000, 5000), NoneV, "automation"),
   Step("click", SendPadded, TupV(5011, 5000), NoneV, "automation"),
   Step("click", Save, NoneV, NoneV, "automation"),
   Step("move", Save, NoneV, NoneV, "automation"),
   Step("type", NoneV, NoneV, StrV(<<"Hello", " ", "{", "variable_1", "}">>), "automation"),
   Step("type", NoneV, NoneV, StrV(<<"Hello", " ", "{", "unknown", "}">>), "automation"),
   Step("type", NoneV, NoneV, NoneV, "artificial"),
   Step("key", NoneV, NoneV, StrV(<<"cmd", "+", "v">>), "automation")}

\* the items of context.list
RunItems == {StrV(<<"Mia">>)}

SeqsUpTo(S, n) == UNION {[1..k -> S] : k \in 1..n}

\* RefusesStep looking only for a field that is one whole placeholder
RefusesWholePlaceholder(current_step) ==
  \E key \in DOMAIN current_step :
    /\ current_step[key].t = "str"
    /\ Len(current_step[key].s) > 0
    /\ current_step[key].s[1] = "{"
    /\ current_step[key].s[Len(current_step[key].s)] = "}"

\* Mirror 2: any("{" in str(v) and "}" in str(v) for v in
\* current_step.values() if isinstance(v, str))
RefusesStep(current_step) ==
  \E key \in DOMAIN current_step :
    /\ current_step[key].t = "str"
    /\ Contains(current_step[key].s, <<"{">>)
    /\ Contains(current_step[key].s, <<"}">>)

\* Mirror 3 applies: actor == "artificial" and not current_step.get("text")
NeedsGeneratedText(current_step) ==
  current_step.actor = StrV(<<"artificial">>) /\ ~Truthy(current_step.text)

\* the text extract_and_clean_llm_output hands back
GeneratedTexts == {<<"Hi">>}

InitRun ==
  /\ ResolveIdle
  /\ ConvIdle
  /\ FusionIdle
  /\ MatchIdle
  /\ ThreadsIdle
  /\ OcrIdle
  /\ HandsIdle
  /\ steps \in SeqsUpTo(RunSteps, MaxSteps)
  /\ items \in [1..MaxItems -> RunItems]
  /\ item_idx = 1
  /\ step_index = 0
  /\ pulse = 0
  /\ task_context = OriginalTaskContext
  /\ calls = 0
  /\ pc = "for"
  /\ last = NoLast
  /\ last_issued = NoClick
  /\ refused_at = -1
  /\ last_in = NoInputs

\* an item that goes on with the dict the item before it worked on
KeptContext(original_task_context, held) == held

\* original_task_context.copy(), evaluated while task_context still names
\* the dict of the item before: a new dict with the entries of the original
FreshContext(original_task_context, held) == original_task_context

\* for current_item in items_to_process: task_context =
\* original_task_context.copy(); task_context["variable_1"] = item
StartItem ==
  /\ pc = "for"
  /\ item_idx <= Len(items)
  /\ task_context' = CtxSet(FreshContext(OriginalTaskContext, task_context),
                            "variable_1", items[item_idx])
  /\ step_index' = 0
  /\ pulse' = 0
  /\ pc' = "while"
  /\ last_issued' = NoClick
  /\ UNCHANGED <<steps, items, item_idx, calls, last, refused_at, last_in>>
  /\ UNCHANGED <<rsVars, cvVars, visionVars, thVars, ocVars, hqVars>>

\* a pulse starts: while step_index < len(steps)
InPulse == pc = "while" /\ step_index < Len(steps)

\* Broke that abandons the pulse only: the while loop goes on
BrokeRetries(event, step, out) ==
  /\ pulse' = pulse + 1
  /\ pc' = "while"
  /\ last' = History(event, step, HeldClick(task_context), out)
  /\ UNCHANGED <<steps, items, item_idx, step_index>>
  /\ UNCHANGED <<rsVars, cvVars, visionVars, thVars, ocVars, hqVars>>

\* a break: the pulse ends and the while loop is left
Broke(event, step, out) ==
  /\ pulse' = pulse + 1
  /\ pc' = "after"
  /\ last' = History(event, step, HeldClick(task_context), out)
  /\ UNCHANGED <<steps, items, item_idx, step_index>>
  /\ UNCHANGED <<rsVars, cvVars, visionVars, thVars, ocVars, hqVars>>

\* the visual stack fails (no OCR text blocks, or an exception): break
PulseVisualFail ==
  /\ InPulse
  /\ Broke("visual_fail", steps[step_index + 1], NoOutcome)
  /\ last_in' = NoInputs
  /\ UNCHANGED <<task_context, calls, last_issued, refused_at>>

\* Mirror 2 refuses the resolved step: break
Refuse(resolved) ==
  /\ RefusesStep(resolved)
  /\ Broke("refused", resolved, NoOutcome)
  /\ last_in' = NoInputs
  /\ refused_at' = IF refused_at = -1 THEN calls ELSE refused_at
  /\ UNCHANGED <<task_context, calls, last_issued>>

\* Mirror 3: the model call fails: break
QwenFail(resolved) ==
  /\ ~RefusesStep(resolved)
  /\ NeedsGeneratedText(resolved)
  /\ Broke("qwen_fail", resolved, NoOutcome)
  /\ last_in' = NoInputs
  /\ UNCHANGED <<task_context, calls, last_issued, refused_at>>

\* Mirror 4-5: execute_action runs; an exception breaks, otherwise
\* step_index += 1
Execute(resolved) ==
  /\ ~RefusesStep(resolved)
  /\ \E generated \in GeneratedTexts, act \in ActResults : \E match \in MatchInputs(resolved) :
       LET current_step == IF NeedsGeneratedText(resolved)
                           THEN [resolved EXCEPT !.text = StrV(generated)]
                           ELSE resolved
           out == execute_action(current_step, match, act, pulse + 1, task_context)
       IN /\ task_context' = out.ctx
          /\ calls' = calls + Len(out.made)
          /\ last_issued' = IssuedBy(out, current_step.target, pulse + 1, last_issued)
          /\ last_in' = Inputs(match, act, out)
          /\ IF out.raised
             THEN Broke("exec_raised", resolved, out)
             ELSE /\ step_index' = step_index + 1
                  /\ pulse' = pulse + 1
                  /\ last' = History("executed", resolved, HeldClick(task_context), out)
                  /\ UNCHANGED <<steps, items, item_idx, pc>>
                  /\ UNCHANGED <<rsVars, cvVars, visionVars, thVars, ocVars, hqVars>>
  /\ UNCHANGED refused_at

\* a pulse whose visual stack worked: Mirror 1 resolves the placeholders of
\* a copy of the current step, then Mirrors 2 to 5
PulseStep ==
  /\ InPulse
  /\ LET resolved == resolve_step_placeholders(steps[step_index + 1], task_context)
     IN \/ Refuse(resolved)
        \/ QwenFail(resolved)
        \/ Execute(resolved)

\* the while condition fails: all steps were advanced
WhileExit ==
  /\ pc = "while"
  /\ step_index >= Len(steps)
  /\ pc' = "after"
  /\ UNCHANGED <<steps, items, item_idx, step_index, pulse, task_context, calls,
                 last, last_issued, refused_at, last_in>>
  /\ UNCHANGED <<rsVars, cvVars, visionVars, thVars, ocVars, hqVars>>

\* after the while loop, however it ended: the for loop takes the next item
NextItem ==
  /\ pc = "after"
  /\ item_idx' = item_idx + 1
  /\ pc' = "for"
  /\ UNCHANGED <<steps, items, step_index, pulse, task_context, calls,
                 last, last_issued, refused_at, last_in>>
  /\ UNCHANGED <<rsVars, cvVars, visionVars, thVars, ocVars, hqVars>>

\* no item is left: ping_pong_loop returns
LoopDone ==
  /\ pc = "for"
  /\ item_idx > Len(items)
  /\ pc' = "done"
  /\ UNCHANGED <<steps, items, item_idx, step_index, pulse, task_context, calls,
                 last, last_issued, refused_at, last_in>>
  /\ UNCHANGED <<rsVars, cvVars, visionVars, thVars, ocVars, hqVars>>

NextRun ==
  \/ StartItem
  \/ PulseVisualFail
  \/ PulseStep
  \/ WhileExit
  \/ NextItem
  \/ LoopDone

SpecRun == InitRun /\ [][NextRun]_vars

\* ------------------------------------------------------------------------
\* Specification SpecConv: convert_to_automation behind the two endpoints
\* ------------------------------------------------------------------------
\* recorded actions: clicks passing 5, 4, 3 and 2 of their checks, keyboard
\* actions passing 3 and 2 of theirs, and an event the converter has no
\* branch for
ClickAll == Action("click", TRUE, <<5000, 5000>>, "Google Chrome", <<"localhost">>, 100, 800, 600,
                   <<>>, <<>>, <<"Send", "!">>)

ClickEdge == Action("click", TRUE, <<30, 5000>>, "Google Chrome", <<"localhost">>, 100, 800, 600,
                    <<>>, <<>>, <<>>)

ClickSmallEdge == Action("click", TRUE, <<30, 5000>>, "Mail", <<"Learning Loop">>, 100, 50, 600,
                         <<>>, <<>>, <<"OK">>)

ClickBare == Action("click", FALSE, <<0, 0>>, "Unknown", <<"Unknown">>, 5, 0, 0,
                    <<>>, <<>>, <<>>)

TypeHello == Action("type", FALSE, <<0, 0>>, "Google Chrome", <<"localhost">>, 100, 800, 600,
                    <<"Hello">>, <<>>, <<>>)

TypeBlank == Action("type", FALSE, <<0, 0>>, "Google Chrome", <<"localhost">>, 100, 800, 600,
                    <<" ">>, <<>>, <<>>)

KeyEnter == Action("key", FALSE, <<0, 0>>, "Google Chrome", <<"localhost">>, 100, 800, 600,
                   <<>>, <<"enter">>, <<>>)

KeyNone == Action("key", FALSE, <<0, 0>>, "Mail", <<"Inbox">>, 100, 800, 600,
                  <<>>, <<>>, <<>>)

Scroll == Action("scroll", TRUE, <<5000, 5000>>, "Google Chrome", <<"localhost">>, 100, 800, 600,
                 <<>>, <<>>, <<>>)

RecordedActions == {ClickAll, ClickEdge, ClickSmallEdge, ClickBare, TypeHello, TypeBlank,
                    KeyEnter, KeyNone, Scroll}

\* request.quality_threshold in percent; 80 is the default
QualityThresholds == {50, 80, 100}

\* a gate that also turns away a rate equal to the threshold
QualityNotAbove(quality_report, threshold) ==
  quality_report.reliable_steps * 100 <= threshold * quality_report.total_actions

\* reliability_rate < request.quality_threshold, the rate being
\* quality_report["reliable_steps"] / quality_report["total_actions"]
QualityTooLow(quality_report, threshold) ==
  quality_report.reliable_steps * 100 < threshold * quality_report.total_actions

\* reliability_rating from the rate
ReliabilityRating(quality_report) ==
  LET rate == quality_report.reliable_steps * 100
      total == quality_report.total_actions
  IN IF rate >= 90 * total THEN "very_reliable"
     ELSE IF rate >= 75 * total THEN "mostly_reliable"
     ELSE IF rate >= 50 * total THEN "somewhat_reliable"
     ELSE "needs_improvement"

\* raise HTTPException(status_code=...)
HttpError(status) == [NoResponse EXCEPT !.http = status]

InitConv ==
  /\ actions \in UNION {[1..k -> RecordedActions] : k \in 0..MaxActions}
  /\ quality_threshold \in QualityThresholds
  /\ endpoint \in {"convert", "export"}
  /\ cv_i = 0
  /\ reliable_steps = <<>>
  /\ check_summary = NoSummary
  /\ cv_pc = "load"
  /\ response = NoResponse
  /\ saved = NoSave
  /\ cv_last = NoConverted
  /\ RunIdle
  /\ ResolveIdle
  /\ FusionIdle
  /\ MatchIdle
  /\ ThreadsIdle
  /\ OcrIdle
  /\ HandsIdle

\* the endpoint up to the loop of convert_to_automation: the session file is
\* found or not; /convert turns its own 404 into a 500 in "except Exception";
\* an empty log raises ValueError
LoadSession ==
  /\ cv_pc = "load"
  /\ \E found \in BOOLEAN :
       IF ~found
       THEN /\ response' = HttpError(IF endpoint = "convert" THEN 500 ELSE 404)
            /\ cv_pc' = "error"
            /\ UNCHANGED <<cv_i, check_summary>>
       ELSE IF actions = <<>>
       THEN /\ response' = HttpError(500)
            /\ cv_pc' = "error"
            /\ UNCHANGED <<cv_i, check_summary>>
       ELSE /\ check_summary' = [NoSummary EXCEPT !.total_actions = Len(actions)]
            /\ cv_i' = 1
            /\ cv_pc' = "loop"
            /\ UNCHANGED response
  /\ UNCHANGED <<actions, quality_threshold, endpoint, reliable_steps, saved, cv_last>>
  /\ UNCHANGED <<rsVars, runVars, visionVars, thVars, ocVars, hqVars>>

\* one iteration of "for i, action in enumerate(actions, 1)"; an exception of
\* run_checks leaves convert_to_automation and the endpoint answers 500
ConvertAction ==
  /\ cv_pc = "loop"
  /\ cv_i <= Len(actions)
  /\ LET action == actions[cv_i]
         results == run_checks(action)
         step == create_step(action, cv_i, results)
     IN IF results.raised
        THEN /\ cv_last' = [i |-> cv_i, action |-> action, results |-> results, step |-> NoStep]
             /\ response' = HttpError(500)
             /\ cv_pc' = "error"
             /\ UNCHANGED <<cv_i, reliable_steps, check_summary>>
        ELSE /\ cv_last' = [i |-> cv_i, action |-> action, results |-> results, step |-> step]
             /\ reliable_steps' = IF step # NoStep THEN Append(reliable_steps, step)
                                  ELSE reliable_steps
             /\ check_summary' = Tally(check_summary, step, results)
             /\ cv_i' = cv_i + 1
             /\ UNCHANGED <<response, cv_pc>>
  /\ UNCHANGED <<actions, quality_threshold, endpoint, saved>>
  /\ UNCHANGED <<rsVars, runVars, visionVars, thVars, ocVars, hqVars>>

\* the automation convert_to_automation returns, as save_automation gets it
Automation == [called |-> TRUE, steps |-> reliable_steps, quality_report |-> check_summary]

\* the endpoint after convert_to_automation returned: the threshold gate, then
\* save_automation, which writes the file or raises
Respond ==
  /\ cv_pc = "loop"
  /\ cv_i > Len(actions)
  /\ IF QualityTooLow(check_summary, quality_threshold)
     THEN /\ response' = [http |-> 200, success |-> FALSE, quality_report |-> check_summary,
                          reliability_rating |-> ReliabilityRating(check_summary),
                          file_path |-> FALSE]
          /\ UNCHANGED saved
     ELSE /\ saved' = Automation
          /\ \E written \in BOOLEAN :
               response' = IF written
                           THEN [http |-> 200, success |-> TRUE,
                                 quality_report |-> check_summary,
                                 reliability_rating |-> ReliabilityRating(check_summary),
                                 file_path |-> TRUE]
                           ELSE HttpError(500)
  /\ cv_pc' = "responded"
  /\ UNCHANGED <<actions, quality_threshold, endpoint, cv_i, reliable_steps, check_summary,
                 cv_last>>
  /\ UNCHANGED <<rsVars, runVars, visionVars, thVars, ocVars, hqVars>>

\* convert_learning_to_automation (/convert)
RespondConvert == endpoint = "convert" /\ Respond

\* export_with_quality_checks (/learning/export)
RespondExport == endpoint = "export" /\ Respond

NextConv ==
  \/ LoadSession
  \/ ConvertAction
  \/ RespondConvert
  \/ RespondExport

SpecConv == InitConv /\ [][NextConv]_vars

\* ------------------------------------------------------------------------
\* Specification SpecFusion: generate_combined_treasure_map on bounded inputs
\* ------------------------------------------------------------------------
MaxBlocks == 2

\* an entry of ocr_result["text_blocks"]; bbox has a bottom-left origin
TextBlock(text, bbox) == [text |-> text, bbox |-> bbox]

\* text detections inside the image: a button, a label in the bottom-left
\* corner, a blank text and a detection without a usable bbox
TextBlocks ==
  {TextBlock(<<"Send">>, <<40, 30, 20, 10>>),
   TextBlock(<<"Save", " ">>, <<0, 0, 10, 10>>),
   TextBlock(<<" ">>, <<40, 30, 20, 10>>),
   TextBlock(<<"Save">>, <<>>)}

\* a block of run_computer_vision, its box in pixels of the image
CvBlock(x, y, w, h, source) ==
  Entry("ui", <<>>, <<x * 100, y * 100, w * 100, h * 100>>, source)

\* component detections inside the image: two over the button, one right of
\* it without touching it, one far from every text, and one of another source
UiBlocks ==
  {CvBlock(80, 60, 40, 10, "cv"),
   CvBlock(90, 58, 40, 12, "cv"),
   CvBlock(121, 60, 10, 10, "cv"),
   CvBlock(150, 5, 40, 10, "cv"),
   CvBlock(150, 5, 40, 10, "yolo")}

InitFusion ==
  /\ text_blocks \in UNION {[1..k -> TextBlocks] : k \in 0..MaxBlocks}
  /\ ui_blocks \in UNION {[1..k -> UiBlocks] : k \in 0..MaxBlocks}
  /\ vision_enabled \in BOOLEAN
  /\ final_blocks = <<>>
  /\ fu_pc = "call"
  /\ MatchIdle
  /\ ThreadsIdle
  /\ OcrIdle
  /\ HandsIdle
  /\ RunIdle
  /\ ResolveIdle
  /\ ConvIdle

GenerateCombined ==
  /\ fu_pc = "call"
  /\ final_blocks' = generate_combined_treasure_map(text_blocks, ui_blocks, vision_enabled)
  /\ fu_pc' = "return"
  /\ UNCHANGED <<text_blocks, ui_blocks, vision_enabled>>
  /\ UNCHANGED <<rsVars, runVars, cvVars, mtVars, thVars, ocVars, hqVars>>

NextFusion == GenerateCombined

SpecFusion == InitFusion /\ [][NextFusion]_vars

\* ------------------------------------------------------------------------
\* Specification SpecMatch: match_target_in_treasure_map on bounded inputs
\* ------------------------------------------------------------------------
MaxMap == 2

\* labels, character by character
LabelSend == <<"S", "e", "n", "d">>

LabelSendMore == <<"s", "e", "n", "d", ">">>

LabelSe == <<"s", "e">>

LabelS == <<"s">>

LabelSand == <<"s", "a", "n", "d">>

\* treasure-map entries: equal and containing labels at several places, two
\* that differ only in where they are, labels contained in the target, a
\* label close to the target without containing it, a component entry
\* without a label and in pixels, and an element that is not a dictionary
MapEntries ==
  {Entry("text", LabelSend, <<40, 80, 10, 5>>, "ocr"),
   Entry("text", LabelSend, <<30, 40, 10, 10>>, "ocr"),
   Entry("text", LabelSend, <<50, 40, 10, 10>>, "ocr"),
   Entry("block", LabelSendMore, <<30, 40, 10, 10>>, "overlapping"),
   Entry("text", LabelSe, <<30, 40, 10, 10>>, "ocr"),
   Entry("text", LabelS, <<30, 40, 10, 10>>, "ocr"),
   Entry("text", LabelSand, <<30, 40, 10, 10>>, "ocr"),
   Entry("ui", <<>>, <<9000, 5800, 4000, 1200>>, "cv"),
   Entry("notdict", <<>>, <<>>, "")}

\* targets: plain, padded and capitalised, one three times as long as a
\* label it contains, blank, empty and None
MatchTargets ==
  {StrV(<<"s", "e", "n", "d">>), StrV(<<" ", "S", "e", "n", "d", " ">>),
   StrV(<<"s", "e", "n">>), StrV(<<" ">>), StrV(<<>>), NoneV}

InitMatch ==
  /\ treasure_map \in UNION {[1..k -> MapEntries] : k \in 0..MaxMap}
  /\ mt_target \in MatchTargets
  /\ matched = NoEntry
  /\ mt_pc = "call"
  /\ FusionIdle
  /\ ThreadsIdle
  /\ OcrIdle
  /\ HandsIdle
  /\ RunIdle
  /\ ResolveIdle
  /\ ConvIdle

CallMatch ==
  /\ mt_pc = "call"
  /\ matched' = match_target_in_treasure_map(treasure_map, mt_target)
  /\ mt_pc' = "return"
  /\ UNCHANGED <<treasure_map, mt_target>>
  /\ UNCHANGED <<rsVars, runVars, cvVars, fuVars, thVars, ocVars, hqVars>>

NextMatch == CallMatch

SpecMatch == InitMatch /\ [][NextMatch]_vars

\* ------------------------------------------------------------------------
\* Specification SpecThreads: /sprint/run called more than once, each call
\* starting a thread that runs ping_pong_loop
\* ------------------------------------------------------------------------
\* the steps of the tasks get_task_for_now can return: a click on "Send"
\* and a click two pixels beside it, or a click on whatever the resolver
\* finds for "Save" and a click on "Send"
ThreadTasks ==
  {<<Step("click", Send, TupV(5000, 5000), NoneV, "automation"),
     Step("click", SendPadded, TupV(5011, 5000), NoneV, "automation")>>,
   <<Step("click", Save, NoneV, NoneV, "automation"),
     Step("click", Send, TupV(5000, 5000), NoneV, "automation")>>}

\* context.list of these tasks
ThreadItems == <<StrV(<<"Mia">>), StrV(<<"Mia">>)>>

\* task_context bound in the frame of every run at once
StoreContextShared(contexts, r, ctx) == [q \in DOMAIN contexts |-> ctx]

\* task_context = ...: binds the local name in the frame of run r
StoreContext(contexts, r, ctx) == [contexts EXCEPT ![r] = ctx]

InitThreads ==
  /\ ThreadsIdle
  /\ OcrIdle
  /\ HandsIdle
  /\ RunIdle
  /\ ResolveIdle
  /\ ConvIdle
  /\ FusionIdle
  /\ MatchIdle

\* run_sprint: get_task_for_now() gives a task, threading.Thread(
\* target=ping_pong_loop, args=(task,)).start()
RunSprint(r) ==
  /\ th_pc[r] = "idle"
  /\ \E task \in ThreadTasks : th_steps' = [th_steps EXCEPT ![r] = task]
  /\ th_pc' = [th_pc EXCEPT ![r] = "for"]
  /\ th_item' = [th_item EXCEPT ![r] = 1]
  /\ UNCHANGED <<th_step, th_pulse, th_ctx, th_issued, th_last>>
  /\ UNCHANGED <<rsVars, runVars, cvVars, visionVars, ocVars, hqVars>>

\* for current_item in items_to_process: task_context =
\* original_task_context.copy(); task_context["variable_1"] = item
ThreadStartItem(r) ==
  /\ th_pc[r] = "for"
  /\ th_item[r] <= Len(ThreadItems)
  /\ th_ctx' = StoreContext(th_ctx, r,
                 CtxSet(OriginalTaskContext, "variable_1", ThreadItems[th_item[r]]))
  /\ th_step' = [th_step EXCEPT ![r] = 0]
  /\ th_pulse' = [th_pulse EXCEPT ![r] = 0]
  /\ th_pc' = [th_pc EXCEPT ![r] = "while"]
  /\ th_issued' = [th_issued EXCEPT ![r] = NoClick]
  /\ UNCHANGED <<th_steps, th_item, th_last>>
  /\ UNCHANGED <<rsVars, runVars, cvVars, visionVars, ocVars, hqVars>>

\* one pulse of run r.  works: the visual stack (and the model call, where
\* Mirror 3 asks for one) succeeds.  A break leaves the while loop and the
\* for loop goes on to the next item.
ThreadPulse(r) ==
  /\ th_pc[r] = "while"
  /\ th_step[r] < Len(th_steps[r])
  /\ \E works \in BOOLEAN, generated \in GeneratedTexts, act \in ActResults :
       LET resolved == resolve_step_placeholders(th_steps[r][th_step[r] + 1], th_ctx[r])
           current_step == IF NeedsGeneratedText(resolved)
                           THEN [resolved EXCEPT !.text = StrV(generated)]
                           ELSE resolved
           now == th_pulse[r] + 1
       IN \E match \in MatchInputs(resolved) :
            IF ~works \/ RefusesStep(resolved)
            THEN /\ th_pc' = [th_pc EXCEPT ![r] = "for"]
                 /\ th_item' = [th_item EXCEPT ![r] = @ + 1]
                 /\ th_last' = [th_last EXCEPT ![r] = NoPulsed]
                 /\ UNCHANGED <<th_step, th_ctx, th_issued>>
            ELSE LET out == execute_action(current_step, match, act, now, th_ctx[r])
                 IN /\ th_ctx' = StoreContext(th_ctx, r, out.ctx)
                    /\ th_issued' = [th_issued EXCEPT ![r] =
                                       IssuedBy(out, current_step.target, now, @)]
                    /\ th_last' = [th_last EXCEPT ![r] =
                                     Pulsed(out.decision, HeldClick(th_ctx[r]), th_issued[r])]
                    /\ IF out.raised
                       THEN /\ th_pc' = [th_pc EXCEPT ![r] = "for"]
                            /\ th_item' = [th_item EXCEPT ![r] = @ + 1]
                            /\ UNCHANGED th_step
                       ELSE /\ th_step' = [th_step EXCEPT ![r] = @ + 1]
                            /\ UNCHANGED <<th_pc, th_item>>
  /\ th_pulse' = [th_pulse EXCEPT ![r] = @ + 1]
  /\ UNCHANGED th_steps
  /\ UNCHANGED <<rsVars, runVars, cvVars, visionVars, ocVars, hqVars>>

\* the while condition fails: the for loop goes on to the next item
ThreadWhileExit(r) ==
  /\ th_pc[r] = "while"
  /\ th_step[r] >= Len(th_steps[r])
  /\ th_pc' = [th_pc EXCEPT ![r] = "for"]
  /\ th_item' = [th_item EXCEPT ![r] = @ + 1]
  /\ UNCHANGED <<th_steps, th_step, th_pulse, th_ctx, th_issued, th_last>>
  /\ UNCHANGED <<rsVars, runVars, cvVars, visionVars, ocVars, hqVars>>

\* no item is left: ping_pong_loop returns and the thread ends
ThreadReturn(r) ==
  /\ th_pc[r] = "for"
  /\ th_item[r] > Len(ThreadItems)
  /\ th_pc' = [th_pc EXCEPT ![r] = "done"]
  /\ UNCHANGED <<th_steps, th_item, th_step, th_pulse, th_ctx, th_issued, th_last>>
  /\ UNCHANGED <<rsVars, runVars, cvVars, visionVars, ocVars, hqVars>>

NextThreads ==
  \E r \in Runs :
    \/ RunSprint(r)
    \/ ThreadStartItem(r)
    \/ ThreadPulse(r)
    \/ ThreadWhileExit(r)
    \/ ThreadReturn(r)

SpecThreads == InitThreads /\ [][NextThreads]_vars

\* ------------------------------------------------------------------------
\* reading/run_ocr_mac_native.py: reconstruct_text_from_ocr
\* ------------------------------------------------------------------------
\* Coordinates of a raw block are in ten-thousandths, those of a filtered
\* block in thousandths (three decimals).
y_tolerance == 15

x_tolerance == 20

\* one item of raw_blocks: bbox[0] and bbox[1]
Detection(text, x, y) == [text |-> text, x |-> x, y |-> y]

\* round(float(v), 3)
Round3(v) == (v + 5) \div 10

\* step 1: the blocks whose text is not blank, text stripped, x and y rounded
RECURSIVE FilterBlocks(_, _)
FilterBlocks(raw_blocks, k) ==
  IF k = 0 THEN <<>>
  ELSE LET b == raw_blocks[k]
           before == FilterBlocks(raw_blocks, k - 1)
       IN IF b.text # <<>> /\ Strip(b.text) # <<>>
          THEN Append(before, Detection(Strip(b.text), Round3(b.x), Round3(b.y)))
          ELSE before

\* the sort keys: -b["y"] and b["x"]
SortKey(block, by) == IF by = "x" THEN block.x ELSE 0 - block.y

\* the first k blocks in the order given
Unsorted(blocks, by, k) == SubSeq(blocks, 1, k)

\* sorted(blocks, key=...): stable, a block goes behind the blocks whose key
\* is not greater
RECURSIVE Sorted(_, _, _)
Sorted(blocks, by, k) ==
  IF k = 0 THEN <<>>
  ELSE LET before == Sorted(blocks, by, k - 1)
           n == Cardinality({i \in 1..Len(before) :
                               SortKey(before[i], by) <= SortKey(blocks[k], by)})
       IN SubSeq(before, 1, n) \o <<blocks[k]>> \o SubSeq(before, n + 1, Len(before))

\* The pairs of y values of the detections below that lie exactly
\* y_tolerance apart and for which the float comparison of math.isclose
\* holds: 0.115 - 0.1 and 0.13 - 0.115 compare <= 0.015, while
\* 0.135 - 0.12 = 0.015000000000000013 does not.
CloseAtTolerance == {<<100, 115>>, <<115, 130>>}

\* math.isclose(a, b, abs_tol=y_tolerance)
IsClose(a, b) ==
  LET lo == IF a <= b THEN a ELSE b
      hi == IF a <= b THEN b ELSE a
  IN \/ hi - lo < y_tolerance
     \/ hi - lo = y_tolerance /\ <<lo, hi>> \in CloseAtTolerance

\* step 2: a block joins the first line whose y is close to its own, or
\* starts a line
RECURSIVE GroupLines(_, _)
GroupLines(sorted_blocks, k) ==
  IF k = 0 THEN <<>>
  ELSE LET lines == GroupLines(sorted_blocks, k - 1)
           block == sorted_blocks[k]
           close == {i \in 1..Len(lines) : IsClose(block.y, lines[i].y)}
       IN IF close = {}
          THEN Append(lines, [y |-> block.y, blocks |-> <<block>>])
          ELSE LET i == CHOOSE i \in close : \A j \in close : i <= j
               IN [lines EXCEPT ![i].blocks = Append(@, block)]

\* step 3, for one line: the texts joined, a blank where the gap to the
\* estimated end of the block before is wider than x_tolerance
RECURSIVE MergeLine(_, _)
MergeLine(sorted_blocks, k) ==
  IF k = 0 THEN [line_text |-> <<>>, prev_x |-> 0]
  ELSE LET before == MergeLine(sorted_blocks, k - 1)
           block == sorted_blocks[k]
           gap == block.x - before.prev_x
       IN [line_text |-> before.line_text
                         \o (IF k > 1 /\ gap > x_tolerance THEN <<" ">> ELSE <<>>)
                         \o block.text,
           prev_x |-> block.x + Len(block.text) * 10]

\* lines with the blocks of each sorted by x
SortedLines(raw_blocks) ==
  LET blocks == FilterBlocks(raw_blocks, Len(raw_blocks))
      lines == GroupLines(Sorted(blocks, "-y", Len(blocks)), Len(blocks))
  IN [i \in 1..Len(lines) |-> Sorted(lines[i].blocks, "x", Len(lines[i].blocks))]

reconstruct_text_from_ocr(raw_blocks) ==
  LET lines == SortedLines(raw_blocks)
  IN [i \in 1..Len(lines) |-> MergeLine(lines[i], Len(lines[i])).line_text]

\* ------------------------------------------------------------------------
\* Specification SpecOcr: reconstruct_text_from_ocr on bounded inputs
\* ------------------------------------------------------------------------
MaxDetections == 3

\* what the OCR layer can detect: texts at y 0.135, 0.13, 0.12, 0.1152
\* and 0.1004, two of them on one height, a padded text, a blank one and an
\* empty one
Detections ==
  {Detection(<<"a">>, 1000, 1350),
   Detection(<<"b", "c">>, 3000, 1300),
   Detection(<<" ", "e">>, 2000, 1300),
   Detection(<<"f">>, 3000, 1200),
   Detection(<<"g", "h">>, 1000, 1152),
   Detection(<<"d">>, 1212, 1004),
   Detection(<<" ">>, 1000, 1300),
   Detection(<<>>, 1000, 1200)}

InitOcr ==
  /\ oc_raw \in UNION {[1..n -> Detections] : n \in 0..MaxDetections}
  /\ oc_lines = <<>>
  /\ oc_out = <<>>
  /\ oc_pc = "call"
  /\ HandsIdle
  /\ ThreadsIdle
  /\ RunIdle
  /\ ResolveIdle
  /\ ConvIdle
  /\ FusionIdle
  /\ MatchIdle

CallReconstruct ==
  /\ oc_pc = "call"
  /\ oc_lines' = SortedLines(oc_raw)
  /\ oc_out' = reconstruct_text_from_ocr(oc_raw)
  /\ oc_pc' = "return"
  /\ UNCHANGED oc_raw
  /\ UNCHANGED <<rsVars, runVars, cvVars, visionVars, thVars, hqVars>>

NextOcr == CallReconstruct

SpecOcr == InitOcr /\ [][NextOcr]_vars

\* ------------------------------------------------------------------------
\* Specification SpecHands: hands_loop and a producer of queued actions
\* ------------------------------------------------------------------------
\* how many actions the producer writes; an action is known by its number
MaxQueued == 4

\* load_actions: [] when the file does not exist, else the list it holds
load_actions(file) == IF ~file.exists THEN <<>> ELSE file.actions

\* what execute_action can do: return, or leave with an exception of
\* pyautogui
ExecResults == {"ok", "raise"}

InitHands ==
  /\ ResolveIdle
  /\ RunIdle
  /\ ConvIdle
  /\ FusionIdle
  /\ MatchIdle
  /\ ThreadsIdle
  /\ OcrIdle
  /\ hq_file \in {QueueFile(FALSE, <<>>), QueueFile(TRUE, <<>>)}
  /\ hq_batch = <<>>
  /\ hq_pos = 0
  /\ hq_pc = "load"
  /\ hq_made = 0
  /\ hq_done = [a \in 1..MaxQueued |-> 0]

\* another process puts one more action at the end of the list in the file,
\* in one write
Produce ==
  /\ hq_made < MaxQueued
  /\ hq_made' = hq_made + 1
  /\ hq_file' = QueueFile(TRUE, Append(load_actions(hq_file), hq_made + 1))
  /\ UNCHANGED <<hq_batch, hq_pos, hq_pc, hq_done>>
  /\ UNCHANGED <<rsVars, runVars, cvVars, visionVars, thVars, ocVars>>

\* actions = load_actions(); if actions: ... else straight to the sleep
HandsLoad ==
  /\ hq_pc = "load"
  /\ hq_batch' = load_actions(hq_file)
  /\ hq_pos' = 0
  /\ hq_pc' = IF load_actions(hq_file) # <<>> THEN "exec" ELSE "sleep"
  /\ UNCHANGED <<hq_file, hq_made, hq_done>>
  /\ UNCHANGED <<rsVars, runVars, cvVars, visionVars, thVars, ocVars>>

\* one iteration of "for action in actions: execute_action(action)"; an
\* exception of execute_action leaves hands_loop
HandsExecute ==
  /\ hq_pc = "exec"
  /\ hq_pos < Len(hq_batch)
  /\ \E result \in ExecResults :
       IF result = "raise"
       THEN /\ hq_pc' = "dead"
            /\ UNCHANGED <<hq_pos, hq_done>>
       ELSE /\ hq_done' = [hq_done EXCEPT ![hq_batch[hq_pos + 1]] = @ + 1]
            /\ hq_pos' = hq_pos + 1
            /\ hq_pc' = IF hq_pos + 1 = Len(hq_batch) THEN "clear" ELSE "exec"
  /\ UNCHANGED <<hq_file, hq_batch, hq_made>>
  /\ UNCHANGED <<rsVars, runVars, cvVars, visionVars, thVars, ocVars>>

\* with open(ACTION_QUEUE, "w") as f: f.write("[]")
HandsClear ==
  /\ hq_pc = "clear"
  /\ hq_file' = QueueFile(TRUE, <<>>)
  /\ hq_pc' = "sleep"
  /\ UNCHANGED <<hq_batch, hq_pos, hq_made, hq_done>>
  /\ UNCHANGED <<rsVars, runVars, cvVars, visionVars, thVars, ocVars>>

\* time.sleep(1), then the next round of "while True"
HandsSleep ==
  /\ hq_pc = "sleep"
  /\ hq_pc' = "load"
  /\ UNCHANGED <<hq_file, hq_batch, hq_pos, hq_made, hq_done>>
  /\ UNCHANGED <<rsVars, runVars, cvVars, visionVars, thVars, ocVars>>

NextHands ==
  \/ Produce
  \/ HandsLoad
  \/ HandsExecute
  \/ HandsClear
  \/ HandsSleep

SpecHands == InitHands /\ [][NextHands]_vars

\* ------------------------------------------------------------------------
\* C5
\* ------------------------------------------------------------------------
\* position of the "}" closing a placeholder that opens at i:
\* "{", blanks, one name that is a context key, blanks, "}"; 0 when s has no
\* such placeholder at i
PlaceholderEnd(s, ctx, i) ==
  LET after(k) == {j \in (k + 1)..Len(s) : ~IsSpace(s[j])}
      first(S) == CHOOSE j \in S : \A m \in S : j <= m
  IN IF i > Len(s) \/ s[i] # "{" \/ after(i) = {} THEN 0
     ELSE LET k == first(after(i))
          IN IF ~CtxHas(ctx, s[k]) \/ after(k) = {} THEN 0
             ELSE IF s[first(after(k))] = "}" THEN first(after(k)) ELSE 0

PlaceholderName(s, i) == s[CHOOSE j \in (i + 1)..Len(s) : ~IsSpace(s[j]) /\ \A m \in (i + 1)..(j - 1) : IsSpace(s[m])]

\* the field with every {name} / { name } of a context key replaced by the
\* key's value, everything else left in place
RECURSIVE SubstitutedFrom(_, _, _)
SubstitutedFrom(s, ctx, i) ==
  IF i > Len(s) THEN <<>>
  ELSE IF PlaceholderEnd(s, ctx, i) # 0
  THEN SafeVal(CtxGet(ctx, PlaceholderName(s, i))) \o SubstitutedFrom(s, ctx, PlaceholderEnd(s, ctx, i) + 1)
  ELSE <<s[i]>> \o SubstitutedFrom(s, ctx, i + 1)

\* C5: resolve_step_placeholders replaces every {name} and { name } whose
\* name is a context key by the value of that key (None giving ""), leaves
\* every other placeholder in place and returns non-string fields unchanged.
C5_EveryKeyedPlaceholderReplaced ==
  rs_pc = "return" =>
    /\ rs_out.text = StrV(SubstitutedFrom(rs_step.text.s, rs_ctx, 1))
    /\ rs_out.coordinates = rs_step.coordinates

\* ------------------------------------------------------------------------
\* C1, C2 (SpecGuard)
\* ------------------------------------------------------------------------
\* a target name without its case and surrounding blanks
NormalName(v) == IF v.t = "str" THEN [named |-> TRUE, s |-> Strip(Lower(v.s))]
                 ELSE [named |-> FALSE, s |-> <<>>]

\* the suppression rule as stated: distance <= 2, or distance < 15 and the
\* same target name
StatedSuppression(final, target, held) ==
  LET dx == final[1] - held.pos[1]
      dy == final[2] - held.pos[2]
  IN \/ dx * dx + dy * dy <= 4
     \/ /\ dx * dx + dy * dy < 225
        /\ NormalName(target) = NormalName(held.target)

\* the last execute_action call was a click step that reached the guard
\* while the context held a last click
GuardedClick ==
  /\ last.event \in {"executed", "exec_raised"}
  /\ last.step.type.s = <<"click">>
  /\ last.decision \in {"click", "skip", "raise"}
  /\ last.before.any

\* C1: a click that meets a context holding a last click is suppressed
\* (automation.click is not called) exactly when the pixel distance is <= 2,
\* or it is < 15 and the target equals the previous target but for case and
\* surrounding blanks; otherwise the click is issued.
C1_SuppressedIffDuplicate ==
  GuardedClick =>
    ((last.made = <<>>) <=> StatedSuppression(last.final, last.step.target, last.before))

\* C1 for steps and stored clicks that both name their target
C1_NamedTargets ==
  (GuardedClick /\ last.step.target.t = "str" /\ last.before.target.t = "str") =>
    ((last.made = <<>>) <=> StatedSuppression(last.final, last.step.target, last.before))

\* C2: the context's last-click fields are those of the most recent click
\* that was issued against it (position, target, time); a suppressed click
\* leaves them as they were, and before any click they are absent.
C2_LastClickIsLastIssued ==
  IF last_issued.any
  THEN /\ CtxHas(task_context, "last_click_coords")
       /\ CtxHas(task_context, "last_click_target")
       /\ CtxHas(task_context, "last_click_time")
       /\ CtxGet(task_context, "last_click_coords") = TupV(last_issued.pos[1], last_issued.pos[2])
       /\ CtxGet(task_context, "last_click_target") = last_issued.target
       /\ CtxGet(task_context, "last_click_time") = NumV(last_issued.time)
  ELSE /\ ~CtxHas(task_context, "last_click_coords")
       /\ ~CtxHas(task_context, "last_click_target")
       /\ ~CtxHas(task_context, "last_click_time")

\* a third click was suppressed under another target name than the one of
\* the issued click the context still holds
C2_Witness ==
  /\ pc = "guard"
  /\ pulse = 3
  /\ last.decision = "skip"
  /\ last.before.any
  /\ last.before.time = 2
  /\ last.step.target # last_issued.target
  /\ last_issued = last.before

\* ------------------------------------------------------------------------
\* C3, C4 (SpecRun)
\* ------------------------------------------------------------------------
\* s holds a placeholder: "{", a non-empty text without braces, "}"
HoldsPlaceholder(s) ==
  \E i, j \in 1..Len(s) :
    /\ i + 1 < j
    /\ s[i] = "{"
    /\ s[j] = "}"
    /\ \A k \in (i + 1)..(j - 1) : s[k] \notin {"{", "}"}

\* some string field of the step holds a placeholder
StepHoldsPlaceholder(step) ==
  \E key \in DOMAIN step : step[key].t = "str" /\ HoldsPlaceholder(step[key].s)

\* C3: no capability call is made for a step that still holds an unresolved
\* placeholder in a string field after resolve_step_placeholders has run.
C3_NoActuationOnUnresolved ==
  (last.event \in {"refused", "qwen_fail", "executed", "exec_raised"}
     /\ StepHoldsPlaceholder(last.step)) => last.made = <<>>

\* a step was refused for its placeholder after an earlier step of the run
\* had acted
C3_Witness ==
  /\ last.event = "refused"
  /\ StepHoldsPlaceholder(last.step)
  /\ calls > 0

\* C4: once a step was refused for an unresolved placeholder the run is over:
\* no step of the current item or of a later item is executed afterwards.
C4_RunStopsAtUnresolved == refused_at # -1 => calls = refused_at

\* ------------------------------------------------------------------------
\* The converter's classification (C6, C7, C8, C10) and the gate (C9)
\* ------------------------------------------------------------------------
\* the number of checks of the last processed action that passed, counted
\* from the "checks" entries
LastPassed == Cardinality({k \in 1..Len(cv_last.results.checks) :
                             cv_last.results.checks[k].passed})

\* the last processed action has a step in reliable_steps
LastEmitted ==
  \E k \in 1..Len(reliable_steps) : reliable_steps[k].step = cv_last.i

\* C6: for a click action run_checks runs 5 checks; with all 5 passed the
\* summary is reliable with confidence high, with exactly 4 it is reliable
\* with confidence medium, and with 3 or fewer it is not reliable, create_step
\* returns no step and the action is not among the emitted steps.
C6_ClickThresholds ==
  (cv_last.i > 0 /\ cv_last.action.event = "click" /\ ~cv_last.results.raised) =>
    /\ Len(cv_last.results.checks) = 5
    /\ LastPassed = 5 =>
         /\ cv_last.results.summary.reliable
         /\ cv_last.results.summary.confidence = "high"
         /\ cv_last.step # NoStep /\ cv_last.step.confidence = "high"
         /\ LastEmitted
    /\ LastPassed = 4 =>
         /\ cv_last.results.summary.reliable
         /\ cv_last.results.summary.confidence = "medium"
         /\ cv_last.step # NoStep /\ cv_last.step.confidence = "medium"
         /\ LastEmitted
    /\ LastPassed <= 3 =>
         /\ ~cv_last.results.summary.reliable
         /\ cv_last.step = NoStep
         /\ ~LastEmitted

\* a click with 3 passed checks was just dropped, after a click with 5 and a
\* click with 4 passed checks were emitted with confidence high and medium
C6_Witness ==
  /\ cv_last.i = 3 /\ cv_last.action.event = "click"
  /\ LastPassed = 3 /\ cv_last.step = NoStep
  /\ Len(reliable_steps) = 2
  /\ reliable_steps[1].confidence = "high" /\ reliable_steps[1].checks_passed = 5
  /\ reliable_steps[2].confidence = "medium" /\ reliable_steps[2].checks_passed = 4

\* the positions (from 1) of the processed actions run_checks rates reliable
ReliablePositions ==
  {i \in 1..Len(actions) :
     /\ i < cv_i \/ (i = cv_i /\ cv_last.i = cv_i /\ ~cv_last.results.raised)
     /\ run_checks(actions[i]).summary.reliable}

\* C7: the emitted steps are exactly the steps of the processed actions that
\* run_checks rated reliable, one step each, in the order of the recording;
\* an action rated unreliable has no step.
C7_StepIffReliable ==
  cv_pc \in {"loop", "responded", "error"} =>
    /\ Len(reliable_steps) = Cardinality(ReliablePositions)
    /\ \A k \in 1..Len(reliable_steps) :
         /\ reliable_steps[k].step \in ReliablePositions
         /\ reliable_steps[k].action = actions[reliable_steps[k].step].event
         /\ k < Len(reliable_steps) => reliable_steps[k].step < reliable_steps[k + 1].step

\* all actions are processed, an unreliable one lies between two reliable ones
C7_Witness ==
  /\ cv_pc = "loop" /\ cv_i = 4
  /\ Len(reliable_steps) = 2
  /\ reliable_steps[1].step = 1 /\ reliable_steps[2].step = 3
  /\ ~run_checks(actions[2]).summary.reliable

\* C8: no exception of a reliability check leaves run_checks: the check is
\* recorded as failed, and the action and the rest of the session are
\* classified.
C8_CheckErrorsContained ==
  /\ ~cv_last.results.raised
  /\ (cv_pc = "error" /\ cv_last.i > 0) => cv_i > Len(actions)

\* the endpoint has decided on a conversion that ran to its end
Decided == cv_pc = "responded"

\* C9: once conversion has run to its end, save_automation is called with the
\* automation if and only if reliable_steps / total_actions is at least
\* quality_threshold; below the threshold the answer is success = false with
\* the quality report and nothing is saved. save_automation is not called in
\* any other state.
C9_SavedIffAtThreshold ==
  /\ Decided =>
       /\ saved.called <=>
            check_summary.reliable_steps * 100 >= quality_threshold * check_summary.total_actions
       /\ saved.called => saved = Automation
       /\ ~saved.called =>
            /\ response.success = FALSE
            /\ response.http = 200
            /\ response.quality_report = check_summary
  /\ ~Decided => ~saved.called

\* a conversion whose rate equals the threshold is saved
C9_Witness ==
  /\ Decided /\ saved.called /\ response.success
  /\ check_summary.unreliable_steps > 0
  /\ check_summary.reliable_steps * 100 = quality_threshold * check_summary.total_actions

\* a conversion below the threshold is turned away with its report
C9_WitnessBelow ==
  /\ Decided /\ ~saved.called /\ ~response.success
  /\ check_summary.reliable_steps > 0
  /\ response.quality_report.unreliable_steps > 0

\* convert_to_automation has returned
Converted == cv_pc \in {"loop", "responded"} /\ cv_i > Len(actions)

\* C10: after convert_to_automation over a non-empty log, reliable_steps +
\* unreliable_steps = total_actions = the number of recorded actions, and
\* reliable_steps is the number of emitted steps.
C10_ReportAddsUp ==
  Converted =>
    /\ Len(actions) > 0
    /\ check_summary.total_actions = Len(actions)
    /\ check_summary.reliable_steps + check_summary.unreliable_steps
         = check_summary.total_actions
    /\ check_summary.reliable_steps = Len(reliable_steps)

\* a log with reliable and dropped actions has been converted
C10_Witness ==
  /\ Converted
  /\ check_summary.reliable_steps > 0 /\ check_summary.unreliable_steps > 1
  /\ "resolution" \in DOMAIN check_summary.failed_checks

\* ------------------------------------------------------------------------
\* The tally of failed checks (C11)
\* ------------------------------------------------------------------------
\* the names run_checks gives its checks
CheckNames == {"coordinates", "window", "compatibility", "resolution", "position",
               "text_content"}

\* the results of run_checks for the actions processed so far
ProcessedResults ==
  [i \in {n \in 1..Len(actions) : n <= cv_last.i} |-> run_checks(actions[i])]

\* the names of the checks the results record as failed
FailedNames(results) ==
  {results.checks[k].name : k \in {n \in 1..Len(results.checks) : ~results.checks[n].passed}}

\* C11: failed_checks[c] is the number of dropped actions on which check c
\* failed; a check failed only by actions that stayed reliable, or by none,
\* has no entry.
C11_FailedChecksTally ==
  cv_pc \in {"loop", "responded", "error"} =>
    LET res == ProcessedResults
        dropped == {i \in DOMAIN res : ~res[i].raised /\ ~res[i].summary.reliable}
        failed == [i \in dropped |-> FailedNames(res[i])]
    IN \A c \in CheckNames :
         LET failing == {i \in dropped : c \in failed[i]}
         IN IF failing = {}
            THEN c \notin DOMAIN check_summary.failed_checks
            ELSE /\ c \in DOMAIN check_summary.failed_checks
                 /\ check_summary.failed_checks[c] = Cardinality(failing)

\* three actions failed the resolution check, one of them stayed reliable,
\* and the report counts the two that were dropped
C11_Witness ==
  /\ Converted
  /\ LET res == ProcessedResults
     IN /\ Cardinality({i \in DOMAIN res : "resolution" \in FailedNames(res[i])}) = 3
        /\ Cardinality({i \in DOMAIN res : res[i].summary.reliable}) = 1
  /\ "resolution" \in DOMAIN check_summary.failed_checks
  /\ check_summary.failed_checks["resolution"] = 2
  /\ "text_content" \notin DOMAIN check_summary.failed_checks

BuiltOcr == BuildOcrBlocks(text_blocks, TRUE)

\* the component blocks of the call
BuiltCv == SelectBlocks(ui_blocks, {k \in 1..Len(ui_blocks) : ui_blocks[k].source = "cv"}, 1)

\* the number of positions of a sequence of entries that hold the entry
Copies(entries, entry) == Cardinality({k \in 1..Len(entries) : entries[k] = entry})

\* the overlapping entry a text block fuses into
Overlapping(ocr) == Entry("block", ocr.label, ocr.position, "overlapping")

TargetLower == IF mt_target.t = "str" THEN Strip(Lower(mt_target.s)) ELSE <<>>

\* the positions of the map whose entries survive the candidate filtering:
\* label and target contain one another and the similarity is above 0.5
Survivors ==
  {k \in 1..Len(treasure_map) :
     /\ treasure_map[k].type # "notdict"
     /\ \/ Contains(Strip(Lower(treasure_map[k].label)), TargetLower)
        \/ Contains(TargetLower, Strip(Lower(treasure_map[k].label)))
     /\ FracGreater(calculate_match_quality(TargetLower, Strip(Lower(treasure_map[k].label))),
                    Frac(1, 2))}

\* C14: the resolver returns nothing when the map or the target is empty or
\* no entry survives the filtering; it returns the sole survivor when there
\* is exactly one; and whatever it returns is an entry of the map whose
\* lower-cased, trimmed label contains the target or is contained in it.
C14_ResolverResult ==
  mt_pc = "return" =>
    /\ (treasure_map = <<>> \/ mt_target \in {NoneV, StrV(<<>>)} \/ Survivors = {})
         => matched = NoEntry
    /\ (mt_target \notin {NoneV, StrV(<<>>)} /\ Cardinality(Survivors) = 1)
         => \A k \in Survivors : matched = treasure_map[k]
    /\ matched # NoEntry =>
         /\ \E k \in 1..Len(treasure_map) : treasure_map[k] = matched
         /\ \/ Contains(Strip(Lower(matched.label)), TargetLower)
            \/ Contains(TargetLower, Strip(Lower(matched.label)))

\* the single entry labelled "Send" is returned for a padded target " Send "
\* from a map that also holds an entry that does not survive
C14_Witness ==
  /\ mt_pc = "return"
  /\ mt_target = StrV(<<" ", "S", "e", "n", "d", " ">>)
  /\ Len(treasure_map) = 2
  /\ Cardinality(Survivors) = 1
  /\ matched = Entry("text", LabelSend, <<40, 80, 10, 5>>, "ocr")
  /\ treasure_map[1] = Entry("text", LabelSand, <<30, 40, 10, 10>>, "ocr")

\* the composite score of the entry at position k for the target of the call
SurvivorScore(k) ==
  score_match_generically(treasure_map[k], Strip(Lower(treasure_map[k].label)),
                          calculate_match_quality(TargetLower,
                                                  Strip(Lower(treasure_map[k].label))))

\* C15: with two or more candidates the resolver returns a candidate whose
\* composite score no candidate exceeds, and of the candidates with that
\* score the one that comes first in the map.
C15_BestScoreFirst ==
  (mt_pc = "return" /\ Truthy(mt_target) /\ Cardinality(Survivors) >= 2) =>
    \E k \in Survivors :
      /\ matched = treasure_map[k]
      /\ \A m \in Survivors : FracAtLeast(SurvivorScore(k), SurvivorScore(m))
      /\ \A m \in Survivors :
           (FracAtLeast(SurvivorScore(m), SurvivorScore(k))) => k <= m

\* two different entries tie for the best score and the first is returned
C15_Witness ==
  /\ mt_pc = "return"
  /\ Cardinality(Survivors) = 2
  /\ treasure_map[1] # treasure_map[2]
  /\ SurvivorScore(1) = SurvivorScore(2)
  /\ matched = treasure_map[1]

\* C16: the similarity is exactly 1.0 for equal target and label and above
\* 0.9 when the label contains the whole target; an entry whose label and
\* target contain one another is discarded when its similarity is below 0.5
\* and kept as a candidate when it is 0.5 or more.
C16_SimilarityAndThreshold ==
  mt_pc = "return" /\ Truthy(mt_target) =>
    \A k \in 1..Len(treasure_map) :
      LET label == Strip(Lower(treasure_map[k].label))
          similarity == calculate_match_quality(TargetLower, label)
      IN treasure_map[k].type # "notdict" =>
           /\ label = TargetLower => similarity = Frac(1, 1)
           /\ (label # TargetLower /\ Contains(label, TargetLower))
                => FracGreater(similarity, Frac(9, 10))
           /\ (Contains(label, TargetLower) \/ Contains(TargetLower, label)) =>
                (IsCandidate(treasure_map[k], TargetLower)
                   <=> FracAtLeast(similarity, Frac(1, 2)))

\* ------------------------------------------------------------------------
\* Unresolved targets and failed capability calls (C17, C18)
\* ------------------------------------------------------------------------
\* the last pulse ran execute_action on a click or move step that names a
\* target, carries no coordinates, and whose target the resolver did not find
SymbolicUnresolved ==
  /\ last.event \in {"executed", "exec_raised"}
  /\ last.step.type.s \in {<<"click">>, <<"move">>, <<"hover">>}
  /\ ~Truthy(last.step.coordinates)
  /\ Truthy(last.step.target)
  /\ last_in.match = "none"

\* C17: when the resolver cannot find the symbolic target of a click or move
\* step that has no direct coordinates, the step is not advanced: the item's
\* loop is left (the pulse ends in a break, not in step_index += 1).
C17_UnresolvedTargetAborts == SymbolicUnresolved => last.event # "executed"

\* the capability call of the last pulse failed
CallFailed == last_in.act \in {"raise", "error"}

\* C18: whenever a capability call (click, move, key press, key combo, type,
\* paste) fails, the item's loop stops: the pulse ends in a break and the
\* step is not advanced.
C18_FailedCallStopsItem == CallFailed => last.event = "exec_raised"

\* ------------------------------------------------------------------------
\* Concurrent runs (C19)
\* ------------------------------------------------------------------------
\* C19: runs executing at the same time never share last-click state: while
\* a run is in its step loop the last click its context holds is the last
\* click the run itself issued for its item, and the guard of a pulse only
\* ever saw the run's own last click, so a click of one run never
\* suppresses a click of another.
C19_RunsKeepOwnLastClick ==
  \A r \in Runs :
    /\ th_pc[r] = "while" => HeldClick(th_ctx[r]) = th_issued[r]
    /\ th_last[r].before = th_last[r].own
    /\ th_last[r].decision = "skip" => th_last[r].own.any

\* two runs are in their step loops and each holds, as the first click of
\* its item, a click on the same pixel and target: whichever came second
\* was issued although the other run had just clicked there
C19_Witness ==
  \E r, q \in Runs :
    /\ r # q
    /\ th_pc[r] = "while" /\ th_pc[q] = "while"
    /\ th_last[r].decision = "click" /\ ~th_last[r].before.any
    /\ th_last[q].decision = "click" /\ ~th_last[q].before.any
    /\ th_issued[r].any /\ th_issued[q].any
    /\ th_issued[r].pos = th_issued[q].pos
    /\ th_issued[r].target = th_issued[q].target

\* ------------------------------------------------------------------------
\* Actions that are neither click, type nor key (C20)
\* ------------------------------------------------------------------------
\* C20: an action whose event is none of click, type and key gets a verdict
\* from run_checks, made of the coordinate and the window check only; it is
\* reliable when at least one of the two passes, and so it becomes a step
\* whenever its window check passes.
C20_OtherEventsClassified ==
  (cv_last.i > 0 /\ cv_last.action.event \notin {"click", "type", "key"}) =>
    /\ ~cv_last.results.raised
    /\ Len(cv_last.results.checks) = 2
    /\ cv_last.results.checks[1].name = "coordinates"
    /\ cv_last.results.checks[2].name = "window"
    /\ cv_last.results.summary.reliable <=> LastPassed >= 1
    /\ cv_last.results.checks[2].passed => cv_last.step # NoStep

\* ------------------------------------------------------------------------
\* Confidence tiers (C21)
\* ------------------------------------------------------------------------
\* the number of checks and the threshold stated for an event type
StatedChecks(event) ==
  IF event = "click" THEN <<5, 4>>
  ELSE IF event \in {"type", "key"} THEN <<3, 2>>
  ELSE <<2, 1>>

\* the tier stated for a number of passed checks
StatedTier(passed_count, event) ==
  IF passed_count = StatedChecks(event)[1] THEN "high"
  ELSE IF passed_count = StatedChecks(event)[2] THEN "medium"
  ELSE "low"

\* C21: for every action type run_checks gives a confidence tier: high when
\* all checks of the type pass, medium when the number of passed checks is
\* the type's threshold, low otherwise.
C21_ConfidenceTiers ==
  cv_last.i > 0 =>
    /\ ~cv_last.results.raised
    /\ cv_last.results.summary.confidence = StatedTier(LastPassed, cv_last.action.event)

\* ------------------------------------------------------------------------
\* Keyboard actions (C28)
\* ------------------------------------------------------------------------
\* the action converted last is a type or key action
LastIsKeyboard == cv_last.i > 0 /\ cv_last.action.event \in {"type", "key"}

\* C28: every recorded type or key action is rated reliable and becomes a
\* step, whatever its content: its coordinate check and its window check
\* pass, so an action with blank text or without a key still gives a step,
\* with confidence medium where an action with content gets high.
C28_KeyboardAlwaysStep ==
  LastIsKeyboard =>
    /\ ~cv_last.results.raised
    /\ cv_last.results.checks[1].passed /\ cv_last.results.checks[2].passed
    /\ cv_last.results.summary.reliable
    /\ cv_last.step # NoStep
    /\ reliable_steps # <<>> /\ reliable_steps[Len(reliable_steps)] = cv_last.step
    /\ cv_last.step.step = cv_last.i /\ cv_last.step.action = cv_last.action.event
    /\ cv_last.step.confidence = IF text_ok(cv_last.action) THEN "high" ELSE "medium"

\* a type action with blank text and a key action without a key, outside the
\* browser, have both become steps of confidence medium
C28_Witness ==
  /\ LastIsKeyboard
  /\ actions = <<TypeBlank, KeyNone>>
  /\ Len(reliable_steps) = 2
  /\ \A k \in 1..2 : reliable_steps[k].confidence = "medium" /\ reliable_steps[k].step = k
  /\ reliable_steps[2].payload = <<"keyboard", "unknown">>

\* ------------------------------------------------------------------------
\* Line reconstruction (C22, C23)
\* ------------------------------------------------------------------------
\* the detections with non-blank text, as step 1 keeps them
KeptBlocks == FilterBlocks(oc_raw, Len(oc_raw))

\* position of the line that holds block number k of KeptBlocks: blocks are
\* told apart by their place, a line holds a block as often as raw_blocks
\* gives it
LinesHolding(block) == {i \in 1..Len(oc_lines) : \E m \in 1..Len(oc_lines[i]) : oc_lines[i][m] = block}

\* C22: any two detections with non-blank text whose y-coordinates differ by
\* at most y_tolerance are placed in the same output line.
C22_CloseDetectionsShareLine ==
  oc_pc = "return" =>
    \A k, m \in 1..Len(KeptBlocks) :
      (KeptBlocks[k].y - KeptBlocks[m].y <= y_tolerance
         /\ KeptBlocks[m].y - KeptBlocks[k].y <= y_tolerance)
        => LinesHolding(KeptBlocks[k]) = LinesHolding(KeptBlocks[m])

\* how often a block occurs in a sequence of blocks
Occurrences(blocks, block) == Cardinality({k \in 1..Len(blocks) : blocks[k] = block})

\* the texts of a line, one after the other
RECURSIVE Texts(_, _)
Texts(blocks, k) == IF k = 0 THEN <<>> ELSE Texts(blocks, k - 1) \o blocks[k].text

\* a line of the output without the blanks put between its texts
RECURSIVE Unspaced(_, _)
Unspaced(line_text, k) ==
  IF k = 0 THEN <<>>
  ELSE IF line_text[k] = " " THEN Unspaced(line_text, k - 1)
  ELSE Append(Unspaced(line_text, k - 1), line_text[k])

\* C23: empty input gives an empty list; otherwise every detection with
\* non-blank text gives its text to exactly one output line, the lines come
\* in order of descending y and the texts of a line in order of ascending x.
C23_LinesOrdered ==
  oc_pc = "return" =>
    /\ oc_raw = <<>> => oc_out = <<>>
    /\ Len(oc_out) = Len(oc_lines)
    /\ \A i \in 1..Len(oc_lines) :
         /\ Unspaced(oc_out[i], Len(oc_out[i])) = Texts(oc_lines[i], Len(oc_lines[i]))
         /\ \A m \in 1..(Len(oc_lines[i]) - 1) : oc_lines[i][m].x <= oc_lines[i][m + 1].x
         /\ \A j \in (i + 1)..Len(oc_lines) :
              \A m \in 1..Len(oc_lines[i]), n \in 1..Len(oc_lines[j]) :
                oc_lines[i][m].y >= oc_lines[j][n].y
    /\ \A k \in 1..Len(KeptBlocks) :
         /\ Cardinality(LinesHolding(KeptBlocks[k])) = 1
         /\ \A i \in LinesHolding(KeptBlocks[k]) :
              Occurrences(oc_lines[i], KeptBlocks[k]) = Occurrences(KeptBlocks, KeptBlocks[k])

\* three detections were given out of order: two lines came out, the upper
\* one with two texts that changed places
C23_Witness ==
  /\ oc_pc = "return"
  /\ Len(oc_raw) = 3
  /\ Len(oc_lines) = 2
  /\ Len(oc_lines[1]) = 2
  /\ oc_raw[1].y < oc_raw[3].y
  /\ oc_lines[1][1] = Detection(<<"e">>, 200, 130)
  /\ oc_lines[1][2] = Detection(<<"b", "c">>, 300, 130)
  /\ oc_raw[2] = Detection(<<"b", "c">>, 3000, 1300)

\* ------------------------------------------------------------------------
\* Pulses of the step loop (C24, C25)
\* ------------------------------------------------------------------------
\* C24: when the capture / OCR / fusion stack fails in a pulse only that
\* pulse is abandoned: the step loop of the item goes on, to try the same
\* step again at the next pulse.
C24_CaptureFailureRetries == last.event = "visual_fail" => pc = "while"

\* C25: every pulse of an item's step loop advances step_index by one or
\* ends the loop: while the loop runs each pulse so far has advanced, at its
\* end at most the last pulse has not, and no more than len(steps) pulses
\* were used, so the steps were tried in index order and none twice.
C25_StepLoopBounded ==
  /\ pc = "while" => pulse = step_index
  /\ pc = "after" => pulse \in {step_index, step_index + 1}
  /\ pc \in {"while", "after"} => pulse <= Len(steps) /\ step_index <= Len(steps)

\* the second item completed a task of two steps in two pulses
C25_Witness ==
  /\ pc = "after"
  /\ item_idx = 2
  /\ Len(steps) = 2
  /\ step_index = 2
  /\ pulse = 2
  /\ last.event = "executed"

\* ------------------------------------------------------------------------
\* Suppressed clicks in the step loop (C26)
\* ------------------------------------------------------------------------
\* C26: a click step the duplicate guard suppresses is still done:
\* execute_action returns normally without a capability call, and the pulse
\* advances step_index instead of ending the item's loop.
C26_SuppressedAdvances ==
  last.decision = "skip" =>
    /\ ~last.raised
    /\ last.made = <<>>
    /\ last.event = "executed"

\* the second click of an item was suppressed and the loop went on to its
\* end
C26_Witness ==
  /\ last.decision = "skip"
  /\ last.event = "executed"
  /\ last.before.any
  /\ pc = "while"
  /\ step_index = 2
  /\ pulse = 2

\* ------------------------------------------------------------------------
\* The duplicate-click state of an item (C29)
\* ------------------------------------------------------------------------
\* the pulse just executed the first click step of the item's steps
FirstClickOfItem ==
  /\ last.event \in {"executed", "exec_raised"}
  /\ pc \in {"while", "after"} /\ pulse >= 1
  /\ last.step.type = StrV(<<"click">>)
  /\ \A k \in 1..Len(steps) :
       k < (IF last.event = "executed" THEN step_index ELSE step_index + 1)
         => steps[k].type # StrV(<<"click">>)

\* C29: the duplicate-click state does not pass from one item to the next:
\* an item starts on a copy of the original context, which holds no last
\* click, and the guard never suppresses the first click step of an item,
\* also when the item before ended with a click on that position and target.
C29_ItemsStartFresh ==
  /\ (pc = "while" /\ pulse = 0) =>
       /\ task_context = CtxSet(OriginalTaskContext, "variable_1", items[item_idx])
       /\ ~HeldClick(task_context).any
  /\ FirstClickOfItem =>
       /\ ~last.before.any
       /\ last.decision # "skip"
       /\ last.decision = "click" => last.made # <<>>

\* both items consist of one click on fixed coordinates: the second item
\* has issued it, as the first did
C29_Witness ==
  /\ FirstClickOfItem
  /\ item_idx = 2
  /\ steps = <<Step("click", Send, TupV(5000, 5000), NoneV, "automation")>>
  /\ last.event = "executed"
  /\ last.decision = "click"
  /\ calls = 2
  /\ HeldClick(task_context).any /\ HeldClick(task_context).pos = last.final

\* ------------------------------------------------------------------------
\* The action queue of hands_loop (C30)
\* ------------------------------------------------------------------------
\* the actions the file holds
InFile == {hq_file.actions[k] : k \in 1..Len(hq_file.actions)}

\* no action written so far was executed more than once
NeverExecutedTwice == \A a \in 1..hq_made : hq_done[a] <= 1

\* C30: every action the producer wrote to the queue file is executed
\* exactly once before it is removed: an action that is no longer in the
\* file has been executed, and no action is executed twice.
C30_ExecutedOnceBeforeRemoval ==
  \A a \in 1..hq_made :
    /\ hq_done[a] <= 1
    /\ a \notin InFile => hq_done[a] = 1

\* ------------------------------------------------------------------------
\* The two copies of the duplicate-click guard (C27)
\* ------------------------------------------------------------------------
\* direct coordinates and resolver results that give the same pixel
SamePixel ==
  {<<TupV(5000, 5000), Block(<<4900, 4900, 209, 204>>)>>,
   <<TupV(5011, 5000), Block(<<4900, 4900, 230, 204>>)>>,
   <<TupV(5079, 5000), Block(<<4900, 4900, 365, 204>>)>>}

\* execute_action on a click step by direct coordinates
ByCoordinates(target, coordinates, act) ==
  execute_action(Step("click", target, coordinates, NoneV, "automation"), NoMatch, act,
                 pulse + 1, task_context)

\* execute_action on a click step by symbolic target
BySymbol(target, match, act) ==
  execute_action(Step("click", target, NoneV, NoneV, "automation"), match, act,
                 pulse + 1, task_context)

\* C27: the guard of the direct-coordinate click and the guard of the
\* symbolic-target click agree: for the same pixel, target name and context
\* both paths make the same decision, the same capability call, and leave
\* the same context.
C27_GuardsAgree ==
  \A pair \in SamePixel, target \in {Send, SendPadded, Save}, act \in ActResults :
    ByCoordinates(target, pair[1], act) = BySymbol(target, pair[2], act)

\* the context holds a click next to which both paths suppress one click,
\* let another through, and fail on a third
C27_Witness ==
  /\ HasLastClick(task_context)
  /\ \E pair \in SamePixel, target \in {Send, SendPadded, Save} :
       BySymbol(target, pair[2], "ok").decision = "skip"
  /\ \E pair \in SamePixel, target \in {Send, SendPadded, Save} :
       BySymbol(target, pair[2], "ok").decision = "click"
  /\ \E pair \in SamePixel, target \in {Send, SendPadded, Save} :
       BySymbol(target, pair[2], "ok").decision = "raise"

====
